---- MODULE Spec2Model ----
(***************************************************************************)
(* Model of the SMS spam detector's notification dispatcher                *)
(* (src/src/services/telegramService.ts, class TelegramService) and of its *)
(* classification orchestrator (src/src/services/classificationService.ts, *)
(* class ClassificationService).                                           *)
(*                                                                         *)
(* The services run on a single-threaded JavaScript event loop: code runs  *)
(* to completion between two awaits, so every action below is the code     *)
(* between two suspension points of one async call.                        *)
(***************************************************************************)
EXTENDS Integers, Sequences, FiniteSets, TLC

\* ------------------------------------------------------------------ bounds
\* sendSpamNotification calls made by the ingestion flows in one run; the
\* k-th call carries message id k.
MaxNotifies == 3
\* Queue capacity: 50 in telegramService.ts:119, scaled down so that the
\* eviction of the oldest entry happens within the other bounds.
QueueCapacity == 2
\* Cap of the history counter of failed drain attempts of one notification.
MaxTries == 3

\* Largest rate limit (seconds) given to initialize()/setRateLimit().
MaxRate == 2
\* Seconds the clock advances in one run.
TimeSpan == 4
\* Tokens of a classified text.
MaxTokens == 2

\* Messages in the device inbox (native ids 1..MaxInbox, newest last).
MaxInbox == 2
\* Incoming SMS events in one run (ids MaxInbox+1.., fresh from generateId).
MaxEvents == 1
\* Cap of the per-message history counters.
CounterCap == 3

\* Largest number of spam keyword matches, and of legitimate pattern matches,
\* in a feature set.
MaxHits == 4
\* Tokens of a text given to calculateKeywordSpamScore.
MaxWords == 3
\* Tokens of a text given to classifyWithKeywords.
MaxFallbackWords == 7
\* Words of a text given to classifyMessage with the shared patterns' state.
MaxTextLen == 2
\* Runs of the initialization of DatabaseService.
MaxInits == 3

\* ------------------------------------------------------- program constants
\* telegramService.ts:150  if (item.retries < 3)
MaxRetries == 3
\* classificationService.ts:10  rateLimitMs = 2000, in seconds
DefaultRateLimit == 2
\* classificationService.ts:201  Math.max(1000, ms), in seconds
MinRateLimit == 1
\* NLP_CLASSIFICATION_GUIDE.md: "High Confidence (>70%)? -> Use NLP result",
\* in hundredths.
TrustThreshold == 70

Msgs == 1..MaxNotifies
\* Concurrent callers of processQueue().
Drains == {"d1", "d2"}
\* Concurrent callers of sendSpamNotification() from the ingestion flows.
Notifiers == {"n1"}

\* What the Telegram endpoint does with one POST /sendMessage:
\* "ok": response.data.ok truthy; "nack": a response whose ok field is absent
\* or falsy; "error": the request rejects (network error, HTTP error status
\* or the 10 s axios timeout).
NetOutcomes == {"ok", "nack", "error"}

Min(a, b) == IF a < b THEN a ELSE b

VARIABLES
  tgConfig,      \* TelegramService.config/client: [set, enabled]
  queue,         \* TelegramService.queue: sequence of entries
  isProcessing,  \* TelegramService.isProcessing
  drain,         \* per processQueue call: position and locals
  notify,        \* per sendSpamNotification call of the ingestion flows
  notified,      \* number of sendSpamNotification calls made by the flows
  tgLast         \* observation of the last sendSpamNotification/processQueue
                 \* step (history); "config" after a lifecycle call

VARIABLES
  aiModel,       \* ClassificationService.genAI/model are set (isInitialized())
  rateLimitMs,   \* ClassificationService.rateLimitMs, in seconds
  lastCallTime,  \* ClassificationService.lastCallTime, in seconds
  now,           \* Date.now(), in seconds
  cls,           \* per classifyMessage call: position and locals
  sinceCall,     \* history: no reset() since the last outbound AI call
  prevCursor,    \* history: lastCallTime as read by the last outbound AI call
  aiCall,        \* observation of the last outbound AI call (history)
  clsLast        \* observation of the last classifyMessage return (history)

VARIABLES
  store,         \* sms_messages: is_spam of each message id, or "absent"
  flow,          \* per ingestion flow call: position and locals
  received,      \* number of SMS events handled so far (ids are fresh)
  inserted,      \* history: successful insertMessage calls per id
  classified,    \* history: classifyMessage results returned per id
  written,       \* history: successful updateClassification calls per id
  rejected,      \* history: rejected updateClassification calls per id
  dispatched,    \* history: sendSpamNotification invocations by flows per id
  monLast,       \* observation of the last step of a flow (history)
  monitor        \* SmsMonitoringService.isMonitoring, subscription,
                 \* onMessageCallback and onStatsUpdateCallback (set or null);
                 \* listeners: the listeners of smsEventEmitter for
                 \* 'onSmsReceived'; cut: the call the handler was awaiting
                 \* when stopMonitoring last ran during the handling of an
                 \* event (history); last: the last startMonitoring or
                 \* stopMonitoring call and its arguments (history)

VARIABLES
  nlpLast,       \* observation of the last nlpClassifierService.classifyMessage
                 \* call: its features and its result (history)
  kwLast,        \* observation of the last calculateKeywordSpamScore call
                 \* (history)
  lastIndex,     \* the lastIndex property of each regular expression object of
                 \* legitimatePatterns.otp and legitimatePatterns.banking, in
                 \* words of the text (0: start of the text)
  rxLast         \* observation of the last classifyMessage call on a text:
                 \* lastIndex at the call, the features and the result
                 \* (history)

VARIABLES
  db,            \* DatabaseService.db is set (not null)
  initializing,  \* DatabaseService.initializing: 0 for null, otherwise the run
                 \* of the initialization whose promise it holds
  initRun,       \* each run of the async function of initialize(): where it
                 \* is, and how its promise settled
  started,       \* runs of the initialization started so far, each calling
                 \* openDatabaseAsync once
  tables,        \* createTables has finished on the database file
  dbCall,        \* each caller of initialize() or of a store operation: where
                 \* it is and the run whose promise it awaits
  dbLast         \* observation of the last step of a caller (history)

tgVars == <<tgConfig, queue, isProcessing, drain, notify, notified, tgLast>>

clsVars == <<aiModel, rateLimitMs, lastCallTime, now, cls, sinceCall,
             prevCursor, aiCall, clsLast>>

nlpVars == <<nlpLast, kwLast, lastIndex, rxLast>>

dbVars == <<db, initializing, initRun, started, tables, dbCall, dbLast>>

monVars == <<store, flow, received, inserted, classified, written, rejected,
             dispatched, monLast, monitor>>

vars == <<tgConfig, queue, isProcessing, drain, notify, notified, tgLast,
          aiModel, rateLimitMs, lastCallTime, now, cls, sinceCall,
          prevCursor, aiCall, clsLast,
          store, flow, received, inserted, classified, written, rejected,
          dispatched, monLast, monitor, nlpLast, kwLast, lastIndex, rxLast,
          db, initializing, initRun, started, tables, dbCall, dbLast>>

\* No queue entry (the `item` local of a drain that is not sending).
NoEntry == [message |-> 0, retries |-> 0, tries |-> 0]

IdleDrain == [pc |-> "idle", items |-> <<>>, item |-> NoEntry,
              sent |-> 0, failed |-> 0, okSends |-> 0, dropped |-> 0]

IdleNotify == [pc |-> "idle", msg |-> 0]

Observe(op, outcome, ret, sent, failed, concurrent, okSends, dropped) ==
  [op |-> op, outcome |-> outcome, ret |-> ret, threw |-> FALSE,
   sent |-> sent, failed |-> failed, concurrent |-> concurrent,
   okSends |-> okSends, dropped |-> dropped]

\* isInitialized(): config !== null && client !== null
IsInitialized == tgConfig.set

\* isEnabled() answering for a configured service whatever its enabled flag.
IsEnabledWhenConfigured == tgConfig.set

\* isEnabled(): config?.enabled ?? false
IsEnabled == tgConfig.set /\ tgConfig.enabled

\* Some processQueue call is between its start and its return.
ActiveDrains == {d \in Drains : drain[d].pc # "idle"}

\* sendMessage without the check of response.data.ok.
SendMessageThrowsOnRejectOnly(outcome) == outcome = "error"

\* sendMessage: throws when the post rejects or response.data.ok is falsy.
SendMessageThrows(outcome) == outcome # "ok"

\* addToQueue without the limit on the queue size.
AddToQueueUnbounded(q, message, tries) ==
  Append(q, [message |-> message, retries |-> 0, tries |-> tries])

\* addToQueue: evict the oldest entry of a full queue, push {message, retries: 0}.
\* `tries` is history: the failed drain attempts of this notification so far.
AddToQueue(q, message, tries) ==
  LET base == IF Len(q) >= QueueCapacity THEN Tail(q) ELSE q
  IN  Append(base, [message |-> message, retries |-> 0, tries |-> tries])

\* sendSpamNotification from the point where the post has answered: the try
\* returns true, the catch re-queues the message and returns false.  Nothing
\* is rethrown, so threw is FALSE on both paths.
SendSpamNotificationDone(q, message, outcome, tries) ==
  IF SendMessageThrows(outcome)
  THEN [ret |-> FALSE, threw |-> FALSE, queue |-> AddToQueue(q, message, tries)]
  ELSE [ret |-> TRUE, threw |-> FALSE, queue |-> q]

\* The body of processQueue's for loop after `await sendSpamNotification(...)`:
\* try: sent++ and the 500 ms delay; catch: item.retries++, re-queue while
\* retries < 3, else failed++.
AfterSend(dr, r) ==
  IF r.threw
  THEN LET it == [dr.item EXCEPT !.retries = @ + 1]
       IN  IF it.retries < MaxRetries
           THEN [d |-> [dr EXCEPT !.item = NoEntry], queue |-> Append(r.queue, it)]
           ELSE [d |-> [dr EXCEPT !.item = NoEntry, !.failed = @ + 1,
                                  !.dropped = @ + 1],
                 queue |-> r.queue]
  ELSE [d |-> [dr EXCEPT !.item = NoEntry, !.sent = @ + 1], queue |-> r.queue]

TgInit ==
  /\ tgConfig = [set |-> FALSE, enabled |-> FALSE]
  /\ queue = <<>>
  /\ isProcessing = FALSE
  /\ drain = [d \in Drains |-> IdleDrain]
  /\ notify = [n \in Notifiers |-> IdleNotify]
  /\ notified = 0
  /\ tgLast = Observe("new", "none", FALSE, 0, 0, FALSE, 0, 0)

\* initialize(botToken, chatId, enabled): throws on an empty token or chat id.
Initialize(valid, enabled) ==
  /\ IF valid
     THEN /\ tgConfig' = [set |-> TRUE, enabled |-> enabled]
          /\ tgLast' = Observe("config", "none", FALSE, 0, 0, FALSE, 0, 0)
     ELSE /\ tgConfig' = tgConfig
          /\ tgLast' = Observe("config", "none", FALSE, 0, 0, FALSE, 0, 0)
  /\ UNCHANGED <<queue, isProcessing, drain, notify, notified>>
  /\ UNCHANGED <<clsVars, monVars, nlpVars, dbVars>>

\* setEnabled(enabled): only when configured.
SetEnabled(enabled) ==
  /\ tgConfig' = IF tgConfig.set THEN [tgConfig EXCEPT !.enabled = enabled] ELSE tgConfig
  /\ tgLast' = Observe("config", "none", FALSE, 0, 0, FALSE, 0, 0)
  /\ UNCHANGED <<queue, isProcessing, drain, notify, notified>>
  /\ UNCHANGED <<clsVars, monVars, nlpVars, dbVars>>

\* reset(): config, client, queue and the processing flag are cleared; calls
\* in flight are not cancelled.
Reset ==
  /\ tgConfig' = [set |-> FALSE, enabled |-> FALSE]
  /\ queue' = <<>>
  /\ isProcessing' = FALSE
  /\ tgLast' = Observe("config", "none", FALSE, 0, 0, FALSE, 0, 0)
  /\ UNCHANGED <<drain, notify, notified>>
  /\ UNCHANGED <<clsVars, monVars, nlpVars, dbVars>>

\* clearQueue()
ClearQueue ==
  /\ queue' = <<>>
  /\ tgLast' = Observe("config", "none", FALSE, 0, 0, FALSE, 0, 0)
  /\ UNCHANGED <<tgConfig, isProcessing, drain, notify, notified>>
  /\ UNCHANGED <<clsVars, monVars, nlpVars, dbVars>>

\* sendSpamNotification(message) called by an ingestion flow, up to the await
\* of the post: not initialized or disabled returns false at once.
NotifyCall(n, m) ==
  /\ notify[n].pc = "idle"
  /\ notified < MaxNotifies
  /\ m = notified + 1
  /\ notified' = notified + 1
  /\ IF IsInitialized /\ IsEnabled
     THEN /\ notify' = [notify EXCEPT ![n] = [pc |-> "posting", msg |-> m]]
          /\ tgLast' = Observe("notifyPost", "none", FALSE, 0, 0, FALSE, 0, 0)
     ELSE /\ notify' = notify
          /\ tgLast' = Observe("notifySkipped", "none", FALSE, 0, 0, FALSE, 0, 0)
  /\ UNCHANGED <<tgConfig, queue, isProcessing, drain>>
  /\ UNCHANGED <<clsVars, monVars, nlpVars, dbVars>>

\* The post of a sendSpamNotification call answers.
NotifyDone(n, outcome) ==
  /\ notify[n].pc = "posting"
  /\ LET r == SendSpamNotificationDone(queue, notify[n].msg, outcome, 0)
     IN  /\ queue' = r.queue
         /\ tgLast' = [Observe("notifyDone", outcome, r.ret, 0, 0, FALSE, 0, 0)
                          EXCEPT !.threw = r.threw]
  /\ notify' = [notify EXCEPT ![n] = IdleNotify]
  /\ UNCHANGED <<tgConfig, isProcessing, drain, notified>>
  /\ UNCHANGED <<clsVars, monVars, nlpVars, dbVars>>

\* One iteration of processQueue's loop up to its next suspension point, from
\* the locals dr: either the post of the next item is started, or
\* sendSpamNotification returns false at once (not initialized / disabled)
\* and the loop counts the item as sent and sleeps, or the loop is over.
LoopStep(dr) ==
  IF dr.items = <<>>
  THEN [d |-> dr, state |-> "return"]
  ELSE LET it == Head(dr.items)
           taken == [dr EXCEPT !.items = Tail(@), !.item = it]
       IN  IF IsInitialized /\ IsEnabled
           THEN [d |-> [taken EXCEPT !.pc = "sending"], state |-> "sending"]
           ELSE [d |-> [AfterSend(taken, [ret |-> FALSE, threw |-> FALSE,
                                          queue |-> <<>>]).d
                          EXCEPT !.pc = "delay"],
                 state |-> "delay"]

\* processQueue() from its call to its first suspension point.
ProcessQueueCall(d) ==
  /\ drain[d].pc = "idle"
  /\ LET concurrent == ActiveDrains # {}
     IN  IF ~IsInitialized \/ ~IsEnabled \/ isProcessing
         THEN /\ tgLast' = Observe("drainNoop", "none", FALSE, 0, 0,
                                   concurrent, 0, 0)
              /\ UNCHANGED <<queue, isProcessing, drain>>
         ELSE LET start == [IdleDrain EXCEPT !.items = queue]
                  s == LoopStep(start)
              IN  /\ queue' = <<>>
                  /\ IF s.state = "return"
                     THEN /\ isProcessing' = FALSE
                          /\ drain' = drain
                          /\ tgLast' = Observe("drainReturn", "none", TRUE,
                                               0, 0, concurrent, 0, 0)
                     ELSE /\ isProcessing' = TRUE
                          /\ drain' = [drain EXCEPT ![d] = s.d]
                          /\ tgLast' = Observe("drainStart",
                                               "none", FALSE, 0, 0, concurrent, 0, 0)
  /\ UNCHANGED <<tgConfig, notify, notified>>
  /\ UNCHANGED <<clsVars, monVars, nlpVars, dbVars>>

\* The post of the drain's current item answers: sendSpamNotification
\* finishes, the loop body counts the item and starts the 500 ms delay.
DrainSendDone(d, outcome) ==
  /\ drain[d].pc = "sending"
  /\ LET it == drain[d].item
         r == SendSpamNotificationDone(queue, it.message, outcome,
                                       Min(it.tries + 1, MaxTries))
         counted == [drain[d] EXCEPT
                       !.okSends = IF outcome = "ok" THEN @ + 1 ELSE @]
         a == AfterSend(counted, r)
     IN  /\ queue' = a.queue
         /\ drain' = [drain EXCEPT ![d] = [a.d EXCEPT !.pc = "delay"]]
         /\ tgLast' = [Observe("drainSendDone", outcome, r.ret, 0, 0, FALSE, 0, 0)
                          EXCEPT !.threw = r.threw]
  /\ UNCHANGED <<tgConfig, isProcessing, notify, notified>>
  /\ UNCHANGED <<clsVars, monVars, nlpVars, dbVars>>

\* The 500 ms delay is over: next iteration, or isProcessing = false and the
\* counts are returned.
DrainDelayDone(d) ==
  /\ drain[d].pc = "delay"
  /\ LET s == LoopStep(drain[d])
     IN  IF s.state = "return"
         THEN /\ isProcessing' = FALSE
              /\ drain' = [drain EXCEPT ![d] = IdleDrain]
              /\ tgLast' = Observe("drainReturn", "none", TRUE,
                                   drain[d].sent, drain[d].failed, FALSE,
                                   drain[d].okSends, drain[d].dropped)
         ELSE /\ isProcessing' = isProcessing
              /\ drain' = [drain EXCEPT ![d] = s.d]
              /\ tgLast' = Observe("drainNext", "none", FALSE,
                                   0, 0, FALSE, 0, 0)
  /\ UNCHANGED <<tgConfig, queue, notify, notified>>
  /\ UNCHANGED <<clsVars, monVars, nlpVars, dbVars>>

\* ------------------------------------------------ classification service
\* Concurrent callers of classifyMessage().
Classifiers == {"c1", "c2"}

\* ../types SPAM_KEYWORDS
SPAM_KEYWORDS ==
  << "lottery", "winner", "congratulations", "claim", "prize",
     "urgent", "limited time", "act now", "click here", "free",
     "cash", "discount", "offer", "deal", "credit",
     "loan", "debt", "investment", "earn money", "work from home",
     "bitcoin", "crypto", "viagra", "pharmacy", "pills",
     "weight loss", "enlarge", "singles", "dating", "verify account",
     "suspended", "confirm", "reset password", "bank account", "social security",
     "irs", "refund", "tax", "gift card" >>

\* Words a text is made of.  A text is represented by tokenize(text), the
\* sequence of its lower-case words.
Vocabulary == {"hello", "prizes"}

Texts == UNION {[1..n -> Vocabulary] : n \in 0..MaxTokens}

\* Rational numbers as num/den with den > 0.
Rat(n, d) == [num |-> n, den |-> d]
RatLess(a, b) == a.num * b.den < b.num * a.den
RatLeq(a, b) == a.num * b.den <= b.num * a.den

\* String.prototype.includes
Includes(str, part) ==
  \E i \in 0..(Len(str) - Len(part)) : SubSeq(str, i + 1, i + Len(part)) = part

\* calculateKeywordSpamScore counting each matching word once, however often
\* the text has it.
CalculateKeywordSpamScoreDistinct(tokens, keywords) ==
  IF Len(tokens) = 0
  THEN Rat(0, 1)
  ELSE LET matches == {tokens[i] : i \in {j \in 1..Len(tokens) :
                         \E k \in 1..Len(keywords) :
                           \/ Includes(keywords[k], tokens[j])
                           \/ Includes(tokens[j], keywords[k])}}
       IN  Rat(Cardinality(matches), Len(tokens))

\* calculateKeywordSpamScore: matchCount / tokens.length, 0 for no tokens.
CalculateKeywordSpamScore(tokens, keywords) ==
  IF Len(tokens) = 0
  THEN Rat(0, 1)
  ELSE LET matches == {i \in 1..Len(tokens) :
                         \E k \in 1..Len(keywords) :
                           \/ Includes(keywords[k], tokens[i])
                           \/ Includes(tokens[i], keywords[k])}
           matchCount == Cardinality(matches)
       IN  IF matchCount > Len(tokens) THEN Rat(1, 1)
           ELSE Rat(matchCount, Len(tokens))

\* Math.round(score * 100)
RoundPercent(score) == (200 * score.num + score.den) \div (2 * score.den)

\* classifyWithKeywords calling spam every text with a matching word.
ClassifyWithKeywordsAnyMatch(tokens) ==
  LET score == CalculateKeywordSpamScore(tokens, SPAM_KEYWORDS)
      isSpam == RatLess(Rat(0, 1), score)
      doubled == Rat(2 * score.num, score.den)
  IN  [isSpam |-> isSpam,
       confidence |-> IF RatLeq(doubled, Rat(85, 100)) THEN doubled ELSE Rat(85, 100),
       reason |-> IF isSpam
                  THEN "Detected spam keywords (" \o ToString(RoundPercent(score))
                         \o "% match). Using fallback detection."
                  ELSE "No significant spam keywords detected. Using fallback detection."]

\* classifyWithKeywords
ClassifyWithKeywords(tokens) ==
  LET score == CalculateKeywordSpamScore(tokens, SPAM_KEYWORDS)
      isSpam == RatLess(Rat(15, 100), score)
      doubled == Rat(2 * score.num, score.den)
  IN  [isSpam |-> isSpam,
       confidence |-> IF RatLeq(doubled, Rat(85, 100)) THEN doubled ELSE Rat(85, 100),
       reason |-> IF isSpam
                  THEN "Detected spam keywords (" \o ToString(RoundPercent(score))
                         \o "% match). Using fallback detection."
                  ELSE "No significant spam keywords detected. Using fallback detection."]

\* Texts the NLP scorer is sure of ("otp": a legitimate pattern and an OTP
\* code) and not sure of ("hello": no indicator at all).
ScorerTexts == {<<"otp">>, <<"hello">>}

\* classifyWithKeywords of every text of the model, computed once.
KeywordResult == [t \in Texts \cup ScorerTexts |-> ClassifyWithKeywords(t)] @@ <<>>

\* What the AI endpoint answers to one generateContent call.  kind "reject":
\* generateContent or result.response rejects (network error, timeout, quota);
\* "nojson": the text holds no {...}; "badjson": JSON.parse throws; "json": an
\* object whose three fields have the JavaScript types and values given.
WellFormedResponses ==
  [kind : {"json"},
   isSpamType : {"boolean"}, isSpam : BOOLEAN,
   confidenceType : {"number"},
   confidence : {Rat(-1, 2), Rat(7, 10), Rat(3, 2)},
   reasonType : {"string"},
   reason : {"", "Unsolicited prize offer."}]

\* A JSON object with one field of the wrong type: isSpam "yes", confidence
\* missing, reason missing.
IllTypedResponses ==
  {[kind |-> "json", isSpamType |-> t[1], isSpam |-> TRUE,
    confidenceType |-> t[2], confidence |-> Rat(7, 10),
    reasonType |-> t[3], reason |-> "Unsolicited prize offer."] :
     t \in {<<"string", "number", "string">>,
            <<"boolean", "undefined", "string">>,
            <<"boolean", "number", "undefined">>}}

JsonResponses == WellFormedResponses \cup IllTypedResponses

NoJson(kind) ==
  [kind |-> kind, isSpamType |-> "undefined", isSpam |-> FALSE,
   confidenceType |-> "undefined", confidence |-> Rat(0, 1),
   reasonType |-> "undefined", reason |-> ""]

Responses == JsonResponses \cup {NoJson("reject"), NoJson("nojson"), NoJson("badjson")}

\* The response is the JSON object the prompt asks for: a boolean isSpam, a
\* numeric confidence and a string reason.
WellFormed(resp) ==
  /\ resp.kind = "json"
  /\ resp.isSpamType = "boolean"
  /\ resp.confidenceType = "number"
  /\ resp.reasonType = "string"

\* Math.max(0, Math.min(1, confidence))
Clamp01(c) ==
  IF RatLess(c, Rat(0, 1)) THEN Rat(0, 1)
  ELSE IF RatLess(Rat(1, 1), c) THEN Rat(1, 1)
  ELSE c

NoResult == [isSpam |-> FALSE, confidence |-> Rat(0, 1), reason |-> ""]

\* classifyWithAI without the typeof checks of the parsed object.
ParseAIResponseUnchecked(resp) ==
  IF resp.kind # "json"
  THEN [threw |-> TRUE, result |-> NoResult]
  ELSE [threw |-> FALSE,
        result |-> [isSpam |-> resp.isSpam,
                    confidence |-> Clamp01(resp.confidence),
                    reason |-> resp.reason]]

\* classifyWithAI from the answer of generateContent on: the match of
\* /\{[\s\S]*\}/, JSON.parse, the typeof checks and the clamp; every failure
\* is rethrown as 'Invalid AI response format'.
ParseAIResponse(resp) ==
  IF resp.kind # "json"
  THEN [threw |-> TRUE, result |-> NoResult]
  ELSE IF \/ resp.isSpamType # "boolean"
          \/ resp.confidenceType # "number"
          \/ resp.reasonType # "string"
       THEN [threw |-> TRUE, result |-> NoResult]
       ELSE [threw |-> FALSE,
             result |-> [isSpam |-> resp.isSpam,
                         confidence |-> Clamp01(resp.confidence),
                         reason |-> resp.reason]]

\* classifyMessage calling a message spam when the AI or the keyword score
\* says so.
ClassifyMessageResultBlended(tokens, ai) ==
  IF ai.threw
  THEN [threw |-> FALSE, result |-> KeywordResult[tokens]]
  ELSE [threw |-> FALSE,
        result |-> [ai.result EXCEPT !.isSpam = @ \/ KeywordResult[tokens].isSpam]]

\* classifyMessage's try/catch around classifyWithAI, then the fallback.
ClassifyMessageResult(tokens, ai) ==
  IF ai.threw
  THEN [threw |-> FALSE, result |-> KeywordResult[tokens]]
  ELSE [threw |-> FALSE, result |-> ai.result]

\* ------------------------------------------------------ the NLP scorer
\* nlpClassifierService on a text of plain lower-case words (no URL, phone
\* number, amount, capital or punctuation mark in it): the one-word
\* alternatives of spamPatterns, each matching a word once.
ScorerSpamWords ==
  {"free", "offer", "discount", "sale", "deal", "hurry", "visit",
   "congratulations", "winner", "prize", "reward", "lottery", "jackpot",
   "million", "billion", "won", "claim", "urgent", "suspended", "refund",
   "inheritance", "beneficiary", "unsubscribe"}

\* The one-word alternatives of legitimatePatterns.banking.
ScorerBankingWords ==
  {"credited", "debited", "transaction", "balance", "account",
   "upi", "neft", "rtgs", "imps"}

\* The one-word alternatives of legitimatePatterns.otp.
ScorerOtpWords == {"otp"}

\* The one-word alternatives of legitimatePatterns (all five groups).
ScorerLegitWords ==
  ScorerBankingWords \cup ScorerOtpWords \cup
  {"order", "parcel", "package", "delivery", "shipped", "dispatched", "awb",
   "delivered", "booking", "reservation", "confirmed", "ticket", "pnr", "berth",
   "appointment", "reminder", "scheduled", "meeting", "bill", "invoice",
   "payment", "due", "statement", "subscription", "renewal", "plan"}

\* The one-word entries of urgentWords; text.includes(word).
ScorerUrgentWords ==
  {"urgent", "immediately", "now", "hurry", "quick", "fast", "expire",
   "expires", "limited", "today", "deadline"}

CountIn(tokens, words) == Cardinality({i \in 1..Len(tokens) : tokens[i] \in words})

\* calculateUrgencyScore, in hundredths: 10 per urgent word the text includes.
UrgencyScore(tokens) ==
  Min(100, 10 * Cardinality({w \in ScorerUrgentWords :
                               \E i \in 1..Len(tokens) : Includes(tokens[i], w)}))

\* The features classifyMessage extracts from a text of plain lower-case
\* words; urgencyScore in hundredths, capitalRatio in percent.
ExtractFeatures(tokens) ==
  [spamKeywordCount |-> CountIn(tokens, ScorerSpamWords),
   legitPatternCount |-> CountIn(tokens, ScorerLegitWords),
   urgencyScore |-> UrgencyScore(tokens),
   capitalRatio |-> 0,
   exclamationCount |-> 0,
   hasURL |-> FALSE,
   hasMoneyAmount |-> FALSE,
   hasOTP |-> CountIn(tokens, ScorerOtpWords) > 0,
   hasBankingTerms |-> CountIn(tokens, ScorerBankingWords) > 0]

\* The feature sets calculateSpamScore is checked on: each threshold of the
\* function (urgencyScore > 0.5, capitalRatio > 0.5, exclamationCount > 2)
\* with a value at it and a value on each side.
FeatureSets ==
  [spamKeywordCount : 0..MaxHits,
   legitPatternCount : 0..MaxHits,
   urgencyScore : {0, 50, 60},
   capitalRatio : {0, 50, 60},
   exclamationCount : {0, 2, 3},
   hasURL : BOOLEAN,
   hasMoneyAmount : BOOLEAN,
   hasOTP : BOOLEAN,
   hasBankingTerms : BOOLEAN]

\* features.urgencyScore >= 0.5 in place of > 0.5.
HighUrgencyFromHalf(features) == features.urgencyScore >= 50

\* features.urgencyScore > 0.5
HighUrgency(features) == features.urgencyScore > 50

\* The spam indicators of calculateSpamScore, in thousandths.
SpamIndicators(features) ==
  (IF features.spamKeywordCount > 0 THEN 150 * features.spamKeywordCount ELSE 0)
    + (IF HighUrgency(features) THEN 200 ELSE 0)
    + (IF features.capitalRatio > 50 THEN 150 ELSE 0)
    + (IF features.exclamationCount > 2 THEN 100 ELSE 0)
    + (IF features.hasURL /\ ~features.hasBankingTerms THEN 200 ELSE 0)

\* The legitimate indicators without the one for a money amount with banking
\* terms.
LegitIndicatorsNoTransaction(features) ==
  (IF features.legitPatternCount > 0 THEN 200 * features.legitPatternCount ELSE 0)
    + (IF features.hasOTP THEN 400 ELSE 0)
    + (IF features.hasBankingTerms THEN 300 ELSE 0)

\* The legitimate indicators of calculateSpamScore, in thousandths.
LegitIndicators(features) ==
  (IF features.legitPatternCount > 0 THEN 200 * features.legitPatternCount ELSE 0)
    + (IF features.hasOTP THEN 400 ELSE 0)
    + (IF features.hasBankingTerms THEN 300 ELSE 0)
    + (IF features.hasMoneyAmount /\ features.hasBankingTerms THEN 200 ELSE 0)

\* calculateSpamScore without Math.max(0, Math.min(1, score)).
CalculateSpamScoreUnclamped(features) ==
  500 + SpamIndicators(features) - LegitIndicators(features)

\* calculateSpamScore, in thousandths: 0.5, plus the spam indicators, minus
\* the legitimate ones, clamped to 0..1.
CalculateSpamScore(features) ==
  LET raw == 500 + SpamIndicators(features) - LegitIndicators(features)
  IN  IF raw < 0 THEN 0 ELSE IF raw > 1000 THEN 1000 ELSE raw

\* The distance of a score from 0.5, in thousandths.
Distance(score) == IF score > 500 THEN score - 500 ELSE 500 - score

\* Math.round(confidence * 100), the confidence in hundredths, of a
\* confidence in thousandths.
RoundToHundredths(c) == (c + 5) \div 10

\* The confidence without the factor 2.
ConfidenceUndoubled(score) == RoundToHundredths(Distance(score))

\* Math.round(Math.abs(score - 0.5) * 2 * 100) / 100, in hundredths.
Confidence(score) == RoundToHundredths(2 * Distance(score))

\* generateReason giving the first reason only.
GenerateReasonFirstOnly(features, isSpam) ==
  LET pick(cond, r) == IF cond THEN <<r>> ELSE <<>>
      spam == pick(features.spamKeywordCount > 0, "spam keyword(s)")
                \o pick(HighUrgency(features), "urgent language")
                \o pick(features.capitalRatio > 50, "excessive capitalization")
                \o pick(features.hasURL, "contains suspicious link")
                \o pick(features.exclamationCount > 2, "multiple exclamation marks")
      legit == pick(features.hasOTP, "OTP/verification code")
                 \o pick(features.hasBankingTerms, "banking transaction")
                 \o pick(features.legitPatternCount > 0, "legitimate pattern(s)")
  IN  IF isSpam
      THEN IF spam # <<>> THEN [text |-> "Spam detected: ", reasons |-> <<Head(spam)>>]
           ELSE [text |-> "Spam pattern detected", reasons |-> <<>>]
      ELSE IF legit # <<>> THEN [text |-> "Legitimate: ", reasons |-> <<Head(legit)>>]
           ELSE [text |-> "No spam indicators found", reasons |-> <<>>]

\* generateReason: the prefix and the reasons joined after it, or the default
\* sentence when no reason applies.
GenerateReason(features, isSpam) ==
  LET pick(cond, r) == IF cond THEN <<r>> ELSE <<>>
      spam == pick(features.spamKeywordCount > 0, "spam keyword(s)")
                \o pick(HighUrgency(features), "urgent language")
                \o pick(features.capitalRatio > 50, "excessive capitalization")
                \o pick(features.hasURL, "contains suspicious link")
                \o pick(features.exclamationCount > 2, "multiple exclamation marks")
      legit == pick(features.hasOTP, "OTP/verification code")
                 \o pick(features.hasBankingTerms, "banking transaction")
                 \o pick(features.legitPatternCount > 0, "legitimate pattern(s)")
  IN  IF isSpam
      THEN IF spam # <<>> THEN [text |-> "Spam detected: ", reasons |-> spam]
           ELSE [text |-> "Spam pattern detected", reasons |-> <<>>]
      ELSE IF legit # <<>> THEN [text |-> "Legitimate: ", reasons |-> legit]
           ELSE [text |-> "No spam indicators found", reasons |-> <<>>]

\* nlpClassifierService.classifyMessage from the features on: the score in
\* thousandths, the verdict, the confidence in hundredths and the reason.
NlpClassify(features) ==
  LET score == CalculateSpamScore(features)
      isSpam == score > 500
  IN  [score |-> score, isSpam |-> isSpam, confidence |-> Confidence(score),
       reason |-> GenerateReason(features, isSpam)]

\* nlpClassifierService.classifyMessage on a text of plain words: the verdict
\* and the confidence in hundredths.
ScorerResult(tokens) ==
  LET r == NlpClassify(ExtractFeatures(tokens))
  IN  [isSpam |-> r.isSpam, confidence |-> r.confidence]

\* No features (before the first call).
NoFeatures ==
  [spamKeywordCount |-> 0, legitPatternCount |-> 0, urgencyScore |-> 0,
   capitalRatio |-> 0, exclamationCount |-> 0, hasURL |-> FALSE,
   hasMoneyAmount |-> FALSE, hasOTP |-> FALSE, hasBankingTerms |-> FALSE]

\* waitForRateLimit sleeping one second too little.
WaitTimeOffByOne(nowT, last, rate) ==
  IF nowT - last < rate THEN rate - (nowT - last) - 1 ELSE 0

\* waitForRateLimit: the time to sleep.
WaitTime(nowT, last, rate) ==
  IF nowT - last < rate THEN rate - (nowT - last) ELSE 0

\* The clock starts late enough for the first call not to wait (Date.now()
\* is far from lastCallTime = 0).
StartTime == MaxRate
MaxTime == StartTime + TimeSpan

\* calls (history): the generateContent calls the invocation has started.
IdleCls == [pc |-> "idle", text |-> <<>>, wakeAt |-> 0, cursor |-> 0, rate |-> 0,
            calls |-> 0]

\* configured, calls (history): isInitialized() as the invocation found it, and
\* the generateContent calls the invocation started.
NoClassify == [op |-> "none", text |-> <<>>, path |-> "none", wellFormed |-> FALSE,
               threw |-> FALSE, result |-> NoResult,
               configured |-> FALSE, calls |-> 0]

ClsInit ==
  /\ aiModel = FALSE
  /\ rateLimitMs = DefaultRateLimit
  /\ lastCallTime = 0
  /\ now = StartTime
  /\ cls = [c \in Classifiers |-> IdleCls]
  /\ sinceCall = FALSE
  /\ prevCursor = 0
  /\ aiCall = [continuous |-> FALSE, gap |-> 0, rate |-> 0, sameCursor |-> FALSE,
               waited |-> FALSE]
  /\ clsLast = NoClassify

\* The outbound AI call of a classifyMessage that read `cursor` and `rate` in
\* waitForRateLimit: lastCallTime is stamped and generateContent is started.
StampAndCall(c, text, cursor, rate, waited) ==
  /\ lastCallTime' = now
  /\ cls' = [cls EXCEPT ![c] = [pc |-> "calling", text |-> text, wakeAt |-> 0,
                                cursor |-> 0, rate |-> 0,
                                calls |-> cls[c].calls + 1]]
  /\ aiCall' = [continuous |-> sinceCall,
                gap |-> IF sinceCall THEN Min(now - lastCallTime, MaxRate + 1) ELSE 0,
                rate |-> rate,
                sameCursor |-> sinceCall /\ cursor = prevCursor,
                waited |-> waited]
  /\ sinceCall' = TRUE
  /\ prevCursor' = cursor

\* Date.now() advances.
Tick ==
  /\ now < MaxTime
  /\ now' = now + 1
  /\ UNCHANGED <<aiModel, rateLimitMs, lastCallTime, cls, sinceCall, prevCursor,
                 aiCall, clsLast>>
  /\ UNCHANGED <<tgVars, monVars, nlpVars, dbVars>>

\* initialize(apiKey, rateLimitMs): throws on an empty key.
ClsInitialize(valid, rate) ==
  /\ IF valid
     THEN aiModel' = TRUE /\ rateLimitMs' = rate
     ELSE UNCHANGED <<aiModel, rateLimitMs>>
  /\ UNCHANGED <<lastCallTime, now, cls, sinceCall, prevCursor, aiCall, clsLast>>
  /\ UNCHANGED <<tgVars, monVars, nlpVars, dbVars>>

\* setRateLimit(ms)
SetRateLimit(ms) ==
  /\ rateLimitMs' = IF ms < MinRateLimit THEN MinRateLimit ELSE ms
  /\ UNCHANGED <<aiModel, lastCallTime, now, cls, sinceCall, prevCursor, aiCall,
                 clsLast>>
  /\ UNCHANGED <<tgVars, monVars, nlpVars, dbVars>>

\* reset(): genAI, model, apiKey and lastCallTime are cleared; rateLimitMs is
\* kept; calls in flight are not cancelled.
ClsReset ==
  /\ aiModel' = FALSE
  /\ lastCallTime' = 0
  /\ sinceCall' = FALSE
  /\ UNCHANGED <<rateLimitMs, now, cls, prevCursor, aiCall, clsLast>>
  /\ UNCHANGED <<tgVars, monVars, nlpVars, dbVars>>

\* classifyMessage(text) up to its first suspension point: not initialized
\* returns the keyword result at once; otherwise classifyWithAI enters
\* waitForRateLimit and either sleeps or stamps and calls the AI.
ClassifyCall(c, text) ==
  /\ cls[c].pc = "idle"
  /\ IF ~aiModel
     THEN /\ clsLast' = [op |-> "classify", text |-> text, path |-> "notConfigured",
                         wellFormed |-> FALSE, threw |-> FALSE,
                         result |-> KeywordResult[text],
                         configured |-> FALSE, calls |-> 0]
          /\ UNCHANGED <<lastCallTime, cls, sinceCall, prevCursor, aiCall>>
     ELSE LET wait == WaitTime(now, lastCallTime, rateLimitMs)
          IN  IF wait > 0
              THEN /\ cls' = [cls EXCEPT ![c] =
                                [pc |-> "sleeping", text |-> text,
                                 wakeAt |-> now + wait, cursor |-> lastCallTime,
                                 rate |-> rateLimitMs, calls |-> 0]]
                   /\ UNCHANGED <<lastCallTime, sinceCall, prevCursor, aiCall, clsLast>>
              ELSE /\ StampAndCall(c, text, lastCallTime, rateLimitMs, FALSE)
                   /\ UNCHANGED clsLast
  /\ UNCHANGED <<aiModel, rateLimitMs, now>>
  /\ UNCHANGED <<tgVars, monVars, nlpVars, dbVars>>

\* The sleep of waitForRateLimit is over: lastCallTime is stamped and the AI
\* is called; after a reset() this.model is null, generateContent throws and
\* classifyMessage falls back.
Wake(c) ==
  /\ cls[c].pc = "sleeping"
  /\ now >= cls[c].wakeAt
  /\ IF aiModel
     THEN /\ StampAndCall(c, cls[c].text, cls[c].cursor, cls[c].rate, TRUE)
          /\ UNCHANGED clsLast
     ELSE LET r == ClassifyMessageResult(cls[c].text,
                                         [threw |-> TRUE, result |-> NoResult])
          IN  /\ lastCallTime' = now
              /\ cls' = [cls EXCEPT ![c] = IdleCls]
              /\ clsLast' = [op |-> "classify", text |-> cls[c].text,
                             path |-> "modelGone", wellFormed |-> FALSE,
                             threw |-> r.threw, result |-> r.result,
                             configured |-> TRUE, calls |-> cls[c].calls]
              /\ UNCHANGED <<sinceCall, prevCursor, aiCall>>
  /\ UNCHANGED <<aiModel, rateLimitMs, now>>
  /\ UNCHANGED <<tgVars, monVars, nlpVars, dbVars>>

\* generateContent answers (or rejects): classifyWithAI parses the answer and
\* classifyMessage returns its result or the keyword fallback.
AIReturn(c, resp) ==
  /\ cls[c].pc = "calling"
  /\ LET r == ClassifyMessageResult(cls[c].text, ParseAIResponse(resp))
     IN  clsLast' = [op |-> "classify", text |-> cls[c].text, path |-> resp.kind,
                     wellFormed |-> WellFormed(resp),
                     threw |-> r.threw, result |-> r.result,
                     configured |-> TRUE, calls |-> cls[c].calls]
  /\ cls' = [cls EXCEPT ![c] = IdleCls]
  /\ UNCHANGED <<aiModel, rateLimitMs, lastCallTime, now, sinceCall, prevCursor,
                 aiCall>>
  /\ UNCHANGED <<tgVars, monVars, nlpVars, dbVars>>

\* ------------------------------------------------ ingestion coordinator
\* The calls of one run: handleIncomingSms once per SMS event, two calls of
\* loadAndClassifyInbox and one of classifyPendingMessages, in any order and
\* overlap.
Handlers == {"h1"}
Scans == {"s1", "s2"}
Pendings == {"p1"}
Flows == Handlers \cup Scans \cup Pendings

InboxIds == 1..MaxInbox
EventIds == (MaxInbox + 1)..(MaxInbox + MaxEvents)
MsgIds == InboxIds \cup EventIds

\* The limit argument of a scan or of classifyPendingMessages.
Limits == 1..MaxInbox

\* A persistence call resolves (TRUE) or rejects (FALSE).
DbOutcomes == BOOLEAN

IdleFlow == [pc |-> "idle", items |-> <<>>, i |-> 0, verdict |-> "none",
             count |-> 0, limit |-> 0, completed |-> 0, failed |-> FALSE,
             known |-> FALSE]

\* A flow that returned: the handler waits for the next event, a scan or a
\* classifyPendingMessages call is over.
Rest(f) == IF f \in Handlers THEN IdleFlow ELSE [IdleFlow EXCEPT !.pc = "done"]

\* The message a flow is working on.
Msg(f) == flow[f].items[flow[f].i]

\* The first awaited call of a flow's loop body.
FirstOp(f) ==
  IF f \in Scans THEN "lookup" ELSE IF f \in Pendings THEN "classify" ELSE "insert"

Bump(counter, m) == [counter EXCEPT ![m] = Min(@ + 1, CounterCap)]

\* ORDER BY timestamp DESC LIMIT n over the ids of S (a later id is newer).
RECURSIVE NewestFirst(_, _)
NewestFirst(S, n) ==
  IF S = {} \/ n = 0
  THEN <<>>
  ELSE LET mx == CHOOSE x \in S : \A y \in S : y <= x
       IN  <<mx>> \o NewestFirst(S \ {mx}, n - 1)

\* INSERT OR REPLACE INTO sms_messages with is_spam NULL.
InsertMessage(st, m) == [st EXCEPT ![m] = "unclassified"]

\* An UPDATE that changes no row.
UpdateClassificationNoRow(st, m, verdict) == st

\* UPDATE sms_messages SET is_spam = ... WHERE id = m.
UpdateClassification(st, m, verdict) ==
  IF st[m] = "absent" THEN st ELSE [st EXCEPT ![m] = verdict]

\* A lookup that takes a message without a verdict for a missing one.
ExistsWithVerdict(st, m) == st[m] \in {"spam", "ham"}

\* getMessage(id) returns a row: `if (!existing)` is false.
Exists(st, m) == st[m] # "absent"

\* The query without its WHERE is_spam IS NULL.
GetStoredMessages(st, limit) ==
  NewestFirst({m \in MsgIds : st[m] # "absent"}, limit)

\* getUnclassifiedMessages(limit)
GetUnclassifiedMessages(st, limit) ==
  NewestFirst({m \in MsgIds : st[m] = "unclassified"}, limit)

StepObs(op) ==
  [op |-> op, ret |-> 0, limit |-> 0, fetched |-> 0, seen |-> 0,
   completed |-> 0, failed |-> FALSE, known |-> FALSE, emitted |-> <<>>]

\* What a flow returns after its loop, with the history of the run.
ReturnObs(f, fl) ==
  [op |-> IF f \in Scans THEN "scanReturn"
          ELSE IF f \in Pendings THEN "pendingReturn" ELSE "handlerReturn",
   ret |-> IF f \in Scans THEN fl.count
           ELSE IF f \in Pendings THEN Len(fl.items) ELSE 0,
   limit |-> fl.limit, fetched |-> Len(fl.items), seen |-> fl.i,
   completed |-> fl.completed, failed |-> fl.failed, known |-> fl.known,
   emitted |-> <<>>]

\* if (callback) callback(...): the event the subscriber gets.
Emit(callback, event) == IF callback THEN <<event>> ELSE <<>>

\* The flow is done with its current message (fl: its locals after it),
\* having called the callbacks for the given events: the loop goes on to the
\* next message, or the flow returns, through onStatsUpdateCallback when
\* `stats` (the return is not through the catch of handleIncomingSms).
FinishEmitting(f, fl, events, stats) ==
  IF fl.i < Len(fl.items)
  THEN /\ flow' = [flow EXCEPT ![f] = [fl EXCEPT !.i = @ + 1, !.verdict = "none",
                                                  !.pc = FirstOp(f)]]
       /\ monLast' = [StepObs("next") EXCEPT !.emitted = events]
  ELSE /\ flow' = [flow EXCEPT ![f] = Rest(f)]
       /\ monLast' = [ReturnObs(f, fl) EXCEPT !.emitted =
                        events \o Emit(stats /\ monitor.onStatsUpdateCallback, "stats")]

\* The flow is done with its current message and no message callback is
\* called for it.
Finish(f, fl) == FinishEmitting(f, fl, <<>>, TRUE)

\* processedCount++ of loadAndClassifyInbox.
Counted(f, fl) == IF f \in Scans THEN [fl EXCEPT !.count = @ + 1] ELSE fl

\* A catch that also counts the message as processed.
FailedButCounted(fl) == [fl EXCEPT !.failed = TRUE, !.count = @ + 1]

\* After a failed call the catch of the loop body (or of the handler) logs.
Failed(fl) == [fl EXCEPT !.failed = TRUE]

\* sendSpamNotification whenever the update resolved, whatever the verdict.
NotifyAfterAnyVerdict(ok, verdict) == ok

\* sendSpamNotification even when the update rejected.
NotifyAfterFailedUpdate(ok, verdict) == verdict = "spam"

\* `if (result.isSpam) await telegramService.sendSpamNotification(message)`,
\* reached only when updateClassification resolved.
NotifyAfter(ok, verdict) == ok /\ verdict = "spam"

\* this.onMessageCallback(message) without the test for null.
OnMessageUnguarded(callback) == IF callback THEN "called" ELSE "threw"

\* if (this.onMessageCallback) this.onMessageCallback(message): the callback
\* of HomeScreen (addMessage, loadStats) does not throw.
OnMessage(callback) == IF callback THEN "called" ELSE "skipped"

\* No startMonitoring or stopMonitoring call yet.
NoMonitorCall == [name |-> "none", onMessage |-> FALSE, onStatsUpdate |-> FALSE]

MonInit ==
  /\ store = [m \in MsgIds |-> "absent"]
  /\ flow = [f \in Flows |-> IdleFlow]
  /\ received = 0
  /\ inserted = [m \in MsgIds |-> 0]
  /\ classified = [m \in MsgIds |-> 0]
  /\ written = [m \in MsgIds |-> 0]
  /\ rejected = [m \in MsgIds |-> 0]
  /\ dispatched = [m \in MsgIds |-> 0]
  /\ monLast = StepObs("new")
  /\ monitor = [isMonitoring |-> FALSE, subscription |-> FALSE, listeners |-> 0,
                onMessageCallback |-> FALSE, onStatsUpdateCallback |-> FALSE,
                cut |-> "none", last |-> NoMonitorCall]

\* handleIncomingSms(event) up to `await databaseService.insertMessage`.
HandlerCall(h) ==
  /\ flow[h].pc = "idle"
  /\ received < MaxEvents
  /\ received' = received + 1
  /\ flow' = [flow EXCEPT ![h] = [IdleFlow EXCEPT !.pc = "insert",
                                     !.items = <<MaxInbox + received + 1>>,
                                     !.i = 1, !.limit = 1]]
  /\ monLast' = StepObs("call")
  /\ UNCHANGED <<store, inserted, classified, written, rejected, dispatched>>
  /\ UNCHANGED <<tgVars, clsVars, nlpVars, dbVars, monitor>>

\* loadAndClassifyInbox(limit) up to `await SmsModule.getAllMessages(limit)`.
ScanCall(s, limit) ==
  /\ flow[s].pc = "idle"
  /\ flow' = [flow EXCEPT ![s] = [IdleFlow EXCEPT !.pc = "fetch", !.limit = limit]]
  /\ monLast' = StepObs("call")
  /\ UNCHANGED <<store, received, inserted, classified, written, rejected, dispatched>>
  /\ UNCHANGED <<tgVars, clsVars, nlpVars, dbVars, monitor>>

\* getAllMessages answers: the loop starts with getMessage of the first
\* message, or the rejection is rethrown to the caller.
ScanFetchDone(s, ok) ==
  /\ flow[s].pc = "fetch"
  /\ LET items == NewestFirst(InboxIds, flow[s].limit)
     IN  IF ok
         THEN /\ flow' = [flow EXCEPT ![s] =
                           [@ EXCEPT !.pc = "lookup", !.items = items, !.i = 1,
                                     !.known = \A k \in 1..Len(items) :
                                                  store[items[k]] # "absent"]]
              /\ monLast' = StepObs("fetched")
         ELSE /\ flow' = [flow EXCEPT ![s] = Rest(s)]
              /\ monLast' = StepObs("scanThrew")
  /\ UNCHANGED <<store, received, inserted, classified, written, rejected, dispatched>>
  /\ UNCHANGED <<tgVars, clsVars, nlpVars, dbVars, monitor>>

\* getMessage(nativeMsg.id) answers: an existing message is skipped, a new
\* one is inserted; a rejection is caught and the loop goes on.
LookupDone(s, ok) ==
  /\ flow[s].pc = "lookup"
  /\ IF ok /\ ~Exists(store, Msg(s))
     THEN /\ flow' = [flow EXCEPT ![s].pc = "insert"]
          /\ monLast' = StepObs("lookup")
     ELSE Finish(s, IF ok THEN flow[s] ELSE Failed(flow[s]))
  /\ UNCHANGED <<store, received, inserted, classified, written, rejected, dispatched>>
  /\ UNCHANGED <<tgVars, clsVars, nlpVars, dbVars, monitor>>

\* insertMessage answers: classifyMessage(message.body) is called; a
\* rejection is caught (handler: the message is dropped; scan: next message).
InsertDone(f, ok) ==
  /\ flow[f].pc = "insert"
  /\ IF ok
     THEN /\ store' = InsertMessage(store, Msg(f))
          /\ inserted' = Bump(inserted, Msg(f))
          /\ IF f \in Handlers /\ OnMessage(monitor.onMessageCallback) = "threw"
             THEN FinishEmitting(f, Failed(flow[f]), <<>>, FALSE)
             ELSE /\ flow' = [flow EXCEPT ![f].pc = "classify"]
                  /\ monLast' = [StepObs("insert") EXCEPT !.emitted =
                                   Emit(f \in Handlers
                                          /\ OnMessage(monitor.onMessageCallback) = "called",
                                        "stored")]
     ELSE /\ FinishEmitting(f, Failed(flow[f]), <<>>, f \notin Handlers)
          /\ UNCHANGED <<store, inserted>>
  /\ UNCHANGED <<received, classified, written, rejected, dispatched>>
  /\ UNCHANGED <<tgVars, clsVars, nlpVars, dbVars, monitor>>

\* classifyMessage returns its result (it never throws):
\* updateClassification is called with it.
ClassifyDone(f, isSpam) ==
  /\ flow[f].pc = "classify"
  /\ classified' = Bump(classified, Msg(f))
  /\ flow' = [flow EXCEPT ![f].pc = "update",
                          ![f].verdict = IF isSpam THEN "spam" ELSE "ham"]
  /\ monLast' = StepObs("classify")
  /\ UNCHANGED <<store, received, inserted, written, rejected, dispatched>>
  /\ UNCHANGED <<tgVars, clsVars, nlpVars, dbVars, monitor>>

\* updateClassification answers: on a spam verdict sendSpamNotification is
\* called, otherwise the message is done and the handler and the scan call
\* onMessageCallback with it; a rejection is caught.
UpdateDone(f, ok) ==
  /\ flow[f].pc = "update"
  /\ store' = IF ok THEN UpdateClassification(store, Msg(f), flow[f].verdict)
              ELSE store
  /\ written' = IF ok THEN Bump(written, Msg(f)) ELSE written
  /\ rejected' = IF ok THEN rejected ELSE Bump(rejected, Msg(f))
  /\ LET fl == IF ok THEN [flow[f] EXCEPT !.completed = @ + 1] ELSE Failed(flow[f])
     IN  IF NotifyAfter(ok, fl.verdict)
         THEN /\ dispatched' = Bump(dispatched, Msg(f))
              /\ flow' = [flow EXCEPT ![f] = [fl EXCEPT !.pc = "notify"]]
              /\ monLast' = StepObs("update")
         ELSE /\ FinishEmitting(f, IF ok THEN Counted(f, fl) ELSE fl,
                                 Emit(ok /\ f \notin Pendings
                                        /\ OnMessage(monitor.onMessageCallback) = "called",
                                      "updated"),
                                 TRUE)
              /\ UNCHANGED dispatched
  /\ UNCHANGED <<received, inserted, classified>>
  /\ UNCHANGED <<tgVars, clsVars, nlpVars, dbVars, monitor>>

\* sendSpamNotification returns (true or false, it never throws; what it
\* does to the retry queue is NotifyCall/NotifyDone above): the handler and
\* the scan call onMessageCallback with the classified message.
DispatchReturn(f) ==
  /\ flow[f].pc = "notify"
  /\ FinishEmitting(f, Counted(f, flow[f]),
                    Emit(f \notin Pendings
                           /\ OnMessage(monitor.onMessageCallback) = "called",
                         "updated"),
                    TRUE)
  /\ UNCHANGED <<store, received, inserted, classified, written, rejected, dispatched>>
  /\ UNCHANGED <<tgVars, clsVars, nlpVars, dbVars, monitor>>

\* classifyPendingMessages(limit) up to `await getUnclassifiedMessages`.
PendingCall(p, limit) ==
  /\ flow[p].pc = "idle"
  /\ flow' = [flow EXCEPT ![p] = [IdleFlow EXCEPT !.pc = "fetch", !.limit = limit]]
  /\ monLast' = StepObs("call")
  /\ UNCHANGED <<store, received, inserted, classified, written, rejected, dispatched>>
  /\ UNCHANGED <<tgVars, clsVars, nlpVars, dbVars, monitor>>

\* getUnclassifiedMessages answers: the loop classifies the first message,
\* or returns 0 on an empty list; a rejection is rethrown.
PendingFetchDone(p, ok) ==
  /\ flow[p].pc = "fetch"
  /\ LET items == GetUnclassifiedMessages(store, flow[p].limit)
     IN  IF ~ok
         THEN /\ flow' = [flow EXCEPT ![p] = Rest(p)]
              /\ monLast' = StepObs("pendingThrew")
         ELSE IF items = <<>>
         THEN /\ flow' = [flow EXCEPT ![p] = Rest(p)]
              /\ monLast' = [ReturnObs(p, flow[p]) EXCEPT !.emitted =
                               Emit(monitor.onStatsUpdateCallback, "stats")]
         ELSE /\ flow' = [flow EXCEPT ![p] =
                           [@ EXCEPT !.pc = "classify", !.items = items, !.i = 1]]
              /\ monLast' = StepObs("fetched")
  /\ UNCHANGED <<store, received, inserted, classified, written, rejected, dispatched>>
  /\ UNCHANGED <<tgVars, clsVars, nlpVars, dbVars, monitor>>

\* ------------------------------------------------- the database service
\* Callers of databaseService.initialize() (AppNavigator and HomeScreen) and
\* of store operations (insertMessage, updateClassification, ...).
Initers == {"i1", "i2"}
Ops == {"o1", "o2"}
DbCallers == Initers \cup Ops

\* openDatabaseAsync and createTables resolve or reject.
InitOutcomes == BOOLEAN

IdleDbCall == [pc |-> "idle", on |-> 0]

DbObs(op, c) == [op |-> op, caller |-> c, db |-> db, tables |-> tables]

DbInit ==
  /\ db = FALSE
  /\ initializing = 0
  /\ initRun = [n \in 1..MaxInits |-> "unused"]
  /\ started = 0
  /\ tables = FALSE
  /\ dbCall = [c \in DbCallers |-> IdleDbCall]
  /\ dbLast = [op |-> "new", caller |-> "none", db |-> FALSE, tables |-> FALSE]

\* this.initializing = (async () => {...})(): the function runs up to
\* `await SQLite.openDatabaseAsync(DB_NAME)` and its promise is kept; the
\* caller c awaits it.
StartInitialization(c) ==
  /\ started < MaxInits
  /\ started' = started + 1
  /\ initRun' = [initRun EXCEPT ![started + 1] = "opening"]
  /\ initializing' = started + 1
  /\ dbCall' = [dbCall EXCEPT ![c] = [pc |-> "wait", on |-> started + 1]]
  /\ dbLast' = DbObs("start", c)
  /\ UNCHANGED <<db, tables>>

\* The caller c awaits the promise in this.initializing.
AwaitInitializing(c) ==
  /\ dbCall' = [dbCall EXCEPT ![c] = [pc |-> "wait", on |-> initializing]]
  /\ dbLast' = DbObs("join", c)
  /\ UNCHANGED <<db, initializing, initRun, started, tables>>

\* initialize() without `if (this.initializing) return this.initializing`.
InitializeCallUnguarded(i) ==
  /\ dbCall[i].pc = "idle"
  /\ IF db
       THEN /\ dbLast' = DbObs("already", i)
            /\ UNCHANGED <<db, initializing, initRun, started, tables, dbCall>>
       ELSE StartInitialization(i)
  /\ UNCHANGED <<tgVars, clsVars, monVars, nlpVars>>

\* initialize(): returns the promise of the initialization in flight,
\* returns at once when the database is set, otherwise starts the
\* initialization.
InitializeCall(i) ==
  /\ dbCall[i].pc = "idle"
  /\ IF initializing # 0
       THEN AwaitInitializing(i)
       ELSE IF db
       THEN /\ dbLast' = DbObs("already", i)
            /\ UNCHANGED <<db, initializing, initRun, started, tables, dbCall>>
       ELSE StartInitialization(i)
  /\ UNCHANGED <<tgVars, clsVars, monVars, nlpVars>>

\* ensureInitialized without `else if (this.initializing) await
\* this.initializing`.
EnsureInitializedCallNoJoin(o) ==
  /\ dbCall[o].pc = "idle"
  /\ IF ~db /\ initializing = 0
       THEN StartInitialization(o)
       ELSE IF ~db
       THEN /\ dbLast' = DbObs("opThrew", o)
            /\ UNCHANGED <<db, initializing, initRun, started, tables, dbCall>>
       ELSE /\ dbCall' = [dbCall EXCEPT ![o] = [pc |-> "ready", on |-> 0]]
            /\ dbLast' = DbObs("ensured", o)
            /\ UNCHANGED <<db, initializing, initRun, started, tables>>
  /\ UNCHANGED <<tgVars, clsVars, monVars, nlpVars>>

\* A store operation is called: `await this.ensureInitialized()` up to its
\* first await.  With no database and no initialization in flight it calls
\* initialize(); with one in flight it awaits its promise; otherwise the
\* database is set and ensureInitialized returns.
EnsureInitializedCall(o) ==
  /\ dbCall[o].pc = "idle"
  /\ IF ~db /\ initializing = 0
       THEN StartInitialization(o)
       ELSE IF initializing # 0
       THEN AwaitInitializing(o)
       ELSE /\ dbCall' = [dbCall EXCEPT ![o] = [pc |-> "ready", on |-> 0]]
            /\ dbLast' = DbObs("ensured", o)
            /\ UNCHANGED <<db, initializing, initRun, started, tables>>
  /\ UNCHANGED <<tgVars, clsVars, monVars, nlpVars>>

\* openDatabaseAsync answers run n: this.db is assigned and createTables is
\* called, or the rejection is caught (this.db = null, rethrown) and the
\* finally clears this.initializing.
OpenDone(n, ok) ==
  /\ initRun[n] = "opening"
  /\ db' = ok
  /\ initRun' = [initRun EXCEPT ![n] = IF ok THEN "creating" ELSE "rejected"]
  /\ initializing' = IF ok THEN initializing ELSE 0
  /\ dbLast' = DbObs(IF ok THEN "opened" ELSE "openFailed", "none")
  /\ UNCHANGED <<started, tables, dbCall>>
  /\ UNCHANGED <<tgVars, clsVars, monVars, nlpVars>>

\* The last execAsync of createTables answers run n (or an earlier one
\* rejects): the promise resolves, or the rejection is caught (this.db =
\* null, rethrown); the finally clears this.initializing.
CreateTablesDone(n, ok) ==
  /\ initRun[n] = "creating"
  /\ tables' = (tables \/ ok)
  /\ db' = IF ok THEN db ELSE FALSE
  /\ initRun' = [initRun EXCEPT ![n] = IF ok THEN "resolved" ELSE "rejected"]
  /\ initializing' = 0
  /\ dbLast' = DbObs(IF ok THEN "created" ELSE "createFailed", "none")
  /\ UNCHANGED <<started, dbCall>>
  /\ UNCHANGED <<tgVars, clsVars, monVars, nlpVars>>

\* The promise the caller awaits has settled.  initialize() returns or
\* throws; ensureInitialized throws on a rejection and on `!this.db`,
\* otherwise returns to the store operation.
AwaitDone(c) ==
  /\ dbCall[c].pc = "wait"
  /\ initRun[dbCall[c].on] \in {"resolved", "rejected"}
  /\ IF c \in Ops /\ initRun[dbCall[c].on] = "resolved" /\ db
       THEN /\ dbCall' = [dbCall EXCEPT ![c] = [pc |-> "ready", on |-> @.on]]
            /\ dbLast' = DbObs("ensured", c)
       ELSE /\ dbCall' = [dbCall EXCEPT ![c] = IdleDbCall]
            /\ dbLast' = DbObs(IF initRun[dbCall[c].on] = "rejected" \/ c \in Ops
                                 THEN "threw" ELSE "initialized", c)
  /\ UNCHANGED <<db, initializing, initRun, started, tables>>
  /\ UNCHANGED <<tgVars, clsVars, monVars, nlpVars>>

\* The store operation goes on after `await this.ensureInitialized()`:
\* this.db!.runAsync(...) (getFirstAsync, getAllAsync) is called.
OpRun(o) ==
  /\ dbCall[o].pc = "ready"
  /\ dbCall' = [dbCall EXCEPT ![o].pc = "run"]
  /\ dbLast' = DbObs("run", o)
  /\ UNCHANGED <<db, initializing, initRun, started, tables>>
  /\ UNCHANGED <<tgVars, clsVars, monVars, nlpVars>>

\* The statement of the store operation answers.
OpDone(o) ==
  /\ dbCall[o].pc = "run"
  /\ dbCall' = [dbCall EXCEPT ![o] = IdleDbCall]
  /\ dbLast' = DbObs("done", o)
  /\ UNCHANGED <<db, initializing, initRun, started, tables>>
  /\ UNCHANGED <<tgVars, clsVars, monVars, nlpVars>>

\* ----------------------------------------- the shared regular expressions
\* legitimatePatterns.otp and legitimatePatterns.banking, in the order some()
\* tests them.  Every one is a regular expression object with the g flag, made
\* once with the service and used by every call.
OtpPatterns == <<"otp0", "otp1", "otp2", "otp3">>

BankingPatterns == <<"banking0", "banking1", "banking2", "banking3", "banking4">>

SharedPatterns ==
  {OtpPatterns[i] : i \in 1..Len(OtpPatterns)} \cup
  {BankingPatterns[i] : i \in 1..Len(BankingPatterns)}

\* The words a pattern matches in a text of plain lower-case words: its
\* one-word alternatives.  The other patterns need several words or a digit.
PatternWords(pattern) ==
  CASE pattern = "otp0" -> ScorerOtpWords
    [] pattern = "banking0" -> {"credited", "debited", "transaction", "balance", "account"}
    [] pattern = "banking2" -> {"upi", "neft", "rtgs", "imps"}
    [] OTHER -> {}

\* pattern.test(text) with the g flag: the search starts at the pattern's
\* lastIndex; a match moves lastIndex to its end, a failure resets it to 0.
RegExpTest(pattern, tokens, from) ==
  LET hits == {j \in 1..Len(tokens) : j > from /\ tokens[j] \in PatternWords(pattern)}
  IN  IF hits = {}
        THEN [found |-> FALSE, lastIndex |-> 0]
        ELSE [found |-> TRUE,
              lastIndex |-> CHOOSE j \in hits : \A k \in hits : j <= k]

\* patterns.some(pattern => pattern.test(text)): the patterns are tested in
\* order until one matches; the ones after it are not touched.
RECURSIVE Some(_, _, _)
Some(patterns, tokens, index) ==
  IF patterns = <<>>
    THEN [found |-> FALSE, lastIndex |-> index]
    ELSE LET t == RegExpTest(Head(patterns), tokens, index[Head(patterns)])
             next == [index EXCEPT ![Head(patterns)] = t.lastIndex]
         IN  IF t.found
               THEN [found |-> TRUE, lastIndex |-> next]
               ELSE Some(Tail(patterns), tokens, next)

\* text.match(pattern) with the g flag leaves lastIndex alone.
CountLegitimatePatternsKeeping(index) == index

\* countLegitimatePatterns(text) on the shared patterns: text.match(pattern)
\* with the g flag sets lastIndex to 0, collects every match and ends on the
\* failed search that resets lastIndex to 0, for every pattern of
\* legitimatePatterns.
CountLegitimatePatterns(index) == [pattern \in SharedPatterns |-> 0]

\* The feature extraction of classifyMessage on a text, the shared patterns
\* having the given lastIndex: countLegitimatePatterns, then detectOTP, then
\* detectBankingTerms.
ExtractWithPatterns(tokens, index) ==
  LET counted == CountLegitimatePatterns(index)
      otp == Some(OtpPatterns, tokens, counted)
      banking == Some(BankingPatterns, tokens, otp.lastIndex)
  IN  [features |-> [ExtractFeatures(tokens) EXCEPT
                       !.hasOTP = otp.found,
                       !.hasBankingTerms = banking.found],
       lastIndex |-> banking.lastIndex]

\* The texts classifyMessage is called on with the shared patterns' state: an
\* OTP word, a word of each one-word banking pattern and a word no pattern
\* matches.
PatternTexts ==
  UNION {[1..n -> {"otp", "debited", "upi", "hello"}] : n \in 0..MaxTextLen}

\* ------------------------------------------------------- specifications
\* No call of the scorer or of calculateKeywordSpamScore yet; the patterns
\* are new, lastIndex 0.
NlpInit ==
  /\ lastIndex = [pattern \in SharedPatterns |-> 0]
  /\ rxLast = [op |-> "new", text |-> <<>>, before |-> [pattern \in SharedPatterns |-> 0],
               features |-> NoFeatures, result |-> NlpClassify(NoFeatures)]
  /\ nlpLast = [op |-> "new", features |-> NoFeatures, result |-> NlpClassify(NoFeatures)]
  /\ kwLast = [op |-> "new", tokens |-> <<>>, keywords |-> <<>>, score |-> Rat(0, 1),
               result |-> NoResult]

\* nlpClassifierService.classifyMessage(message), message having the given
\* features. The scoring of a feature set reads no field of the service,
\* so one call from the initial state stands for every call.
NlpClassifyMessage(features) ==
  /\ nlpLast.op = "new"
  /\ nlpLast' = [op |-> "classify", features |-> features,
                 result |-> NlpClassify(features)]
  /\ UNCHANGED <<kwLast, lastIndex, rxLast>>
  /\ UNCHANGED <<tgVars, clsVars, monVars, dbVars>>

\* The texts and keyword lists calculateKeywordSpamScore is checked on: words
\* that contain a keyword ("prizes"), are contained in one ("me" in "limited
\* time"), are one ("free") or match none ("hello"); the list of the
\* application, the empty list, short lists, and the list of the empty
\* keyword, which every word includes.
KeywordVocabulary == {"hello", "prizes", "me", "free"}
KeywordTexts == UNION {[1..n -> KeywordVocabulary] : n \in 0..MaxWords}
KeywordLists == {SPAM_KEYWORDS, <<>>, <<"prize">>, <<"hello", "limited time">>, <<"">>}

\* calculateKeywordSpamScore(text, keywords), text having the given tokens.
\* The function is pure, so one call from the initial state stands for every
\* call.
KeywordScoreCall(tokens, keywords) ==
  /\ kwLast.op = "new"
  /\ kwLast' = [op |-> "score", tokens |-> tokens, keywords |-> keywords,
                score |-> CalculateKeywordSpamScore(tokens, keywords),
                result |-> NoResult]
  /\ UNCHANGED <<nlpLast, lastIndex, rxLast>>
  /\ UNCHANGED <<tgVars, clsVars, monVars, dbVars>>

Init == TgInit /\ ClsInit /\ MonInit /\ NlpInit /\ DbInit

\* calculateKeywordSpamScore on every text and keyword list.
KeywordNext ==
  \E tokens \in KeywordTexts, keywords \in KeywordLists :
    KeywordScoreCall(tokens, keywords)

KeywordSpec == Init /\ [][KeywordNext]_vars

\* The texts classifyWithKeywords is checked on: a word of the keyword list
\* and a word that matches no keyword, in texts long enough for a ratio below
\* the threshold of 0.15 with a match in it.
FallbackTexts == UNION {[1..n -> {"hello", "free"}] : n \in 0..MaxFallbackWords}

\* classifyWithKeywords(text), text having the given tokens.  The function is
\* pure, so one call from the initial state stands for every call.
ClassifyWithKeywordsCall(tokens) ==
  /\ kwLast.op = "new"
  /\ kwLast' = [op |-> "fallback", tokens |-> tokens, keywords |-> SPAM_KEYWORDS,
                score |-> CalculateKeywordSpamScore(tokens, SPAM_KEYWORDS),
                result |-> ClassifyWithKeywords(tokens)]
  /\ UNCHANGED <<nlpLast, lastIndex, rxLast>>
  /\ UNCHANGED <<tgVars, clsVars, monVars, dbVars>>

\* classifyWithKeywords on every text.
FallbackNext == \E tokens \in FallbackTexts : ClassifyWithKeywordsCall(tokens)

FallbackSpec == Init /\ [][FallbackNext]_vars

\* initialize() calls and store operations under every interleaving, every
\* open and every table creation resolving or rejecting.
DbNext ==
  \/ \E i \in Initers : InitializeCall(i)
  \/ \E o \in Ops : EnsureInitializedCall(o)
  \/ \E n \in 1..MaxInits, ok \in InitOutcomes : OpenDone(n, ok)
  \/ \E n \in 1..MaxInits, ok \in InitOutcomes : CreateTablesDone(n, ok)
  \/ \E c \in DbCallers : AwaitDone(c)
  \/ \E o \in Ops : OpRun(o)
  \/ \E o \in Ops : OpDone(o)

DbSpec == Init /\ [][DbNext]_vars

\* nlpClassifierService.classifyMessage(message) on a text of plain words,
\* the shared patterns in the state the calls before left them in.
ClassifyText(tokens) ==
  LET x == ExtractWithPatterns(tokens, lastIndex)
  IN  /\ lastIndex' = x.lastIndex
      /\ rxLast' = [op |-> "classify", text |-> tokens, before |-> lastIndex,
                    features |-> x.features, result |-> NlpClassify(x.features)]
      /\ UNCHANGED <<nlpLast, kwLast>>
      /\ UNCHANGED <<tgVars, clsVars, monVars, dbVars>>

\* Any sequence of classifyMessage calls on the texts.
PatternNext == \E tokens \in PatternTexts : ClassifyText(tokens)

PatternSpec == Init /\ [][PatternNext]_vars

\* The scorer on every feature set.
NlpNext == \E features \in FeatureSets : NlpClassifyMessage(features)

NlpSpec == Init /\ [][NlpNext]_vars

\* The notification dispatcher under every interleaving of its calls, with
\* no more notifications than the queue holds.
TgNext ==
  \/ \E valid \in BOOLEAN, enabled \in BOOLEAN : Initialize(valid, enabled)
  \/ \E enabled \in BOOLEAN : SetEnabled(enabled)
  \/ Reset
  \/ ClearQueue
  \/ \E n \in Notifiers, m \in Msgs : notified < QueueCapacity /\ NotifyCall(n, m)
  \/ \E n \in Notifiers, o \in NetOutcomes : NotifyDone(n, o)
  \/ \E d \in Drains : ProcessQueueCall(d)
  \/ \E d \in Drains, o \in NetOutcomes : DrainSendDone(d, o)
  \/ \E d \in Drains : DrainDelayDone(d)

TelegramSpec == Init /\ [][TgNext]_vars

\* The dispatcher with one processQueue caller at a time: every lifecycle
\* call, one notification more than the queue holds, and the drains of one
\* caller.
SingleDrainNext ==
  \/ \E valid \in BOOLEAN, enabled \in BOOLEAN : Initialize(valid, enabled)
  \/ \E enabled \in BOOLEAN : SetEnabled(enabled)
  \/ Reset
  \/ ClearQueue
  \/ \E n \in Notifiers, m \in Msgs : NotifyCall(n, m)
  \/ \E n \in Notifiers, o \in NetOutcomes : NotifyDone(n, o)
  \/ ProcessQueueCall("d1")
  \/ \E o \in NetOutcomes : DrainSendDone("d1", o)
  \/ DrainDelayDone("d1")

SingleDrainSpec == Init /\ [][SingleDrainNext]_vars

\* The dispatcher under every interleaving of sendSpamNotification,
\* processQueue, setEnabled and initialize (no reset, no clearQueue), with one
\* notification more than the queue holds.
SendDrainNext ==
  \/ \E valid \in BOOLEAN, enabled \in BOOLEAN : Initialize(valid, enabled)
  \/ \E enabled \in BOOLEAN : SetEnabled(enabled)
  \/ \E n \in Notifiers, m \in Msgs : NotifyCall(n, m)
  \/ \E n \in Notifiers, o \in NetOutcomes : NotifyDone(n, o)
  \/ \E d \in Drains : ProcessQueueCall(d)
  \/ \E d \in Drains, o \in NetOutcomes : DrainSendDone(d, o)
  \/ \E d \in Drains : DrainDelayDone(d)

SendDrainSpec == Init /\ [][SendDrainNext]_vars

\* The timing of classifyMessage: concurrent calls on one text, the AI
\* answering well or not at all.
RateTexts == {<<"prizes", "hello">>}
RateResponses ==
  {NoJson("reject"),
   [kind |-> "json", isSpamType |-> "boolean", isSpam |-> TRUE,
    confidenceType |-> "number", confidence |-> Rat(7, 10),
    reasonType |-> "string", reason |-> "Unsolicited prize offer."]}

RateNext ==
  \/ Tick
  \/ \E valid \in BOOLEAN, rate \in 1..MaxRate : ClsInitialize(valid, rate)
  \/ \E ms \in 0..MaxRate : SetRateLimit(ms)
  \/ ClsReset
  \/ \E c \in Classifiers, t \in RateTexts : ClassifyCall(c, t)
  \/ \E c \in Classifiers : Wake(c)
  \/ \E c \in Classifiers, resp \in RateResponses : AIReturn(c, resp)

RateSpec == Init /\ [][RateNext]_vars

\* The same with sequential calls: a classifyMessage call starts only when
\* no other is in flight.
AllIdle == \A c \in Classifiers : cls[c].pc = "idle"

SeqRateNext ==
  \/ Tick
  \/ \E valid \in BOOLEAN, rate \in 1..MaxRate : ClsInitialize(valid, rate)
  \/ \E ms \in 0..MaxRate : SetRateLimit(ms)
  \/ ClsReset
  \/ \E c \in Classifiers, t \in RateTexts : AllIdle /\ ClassifyCall(c, t)
  \/ \E c \in Classifiers : Wake(c)
  \/ \E c \in Classifiers, resp \in RateResponses : AIReturn(c, resp)

SeqRateSpec == Init /\ [][SeqRateNext]_vars

\* The results of classifyMessage: one caller, every text and every answer.
ClassifyNext ==
  \/ Tick
  \/ \E valid \in BOOLEAN : ClsInitialize(valid, DefaultRateLimit)
  \/ ClsReset
  \/ \E t \in Texts : ClassifyCall("c1", t)
  \/ Wake("c1")
  \/ \E resp \in Responses : AIReturn("c1", resp)

ClassifySpec == Init /\ [][ClassifyNext]_vars

\* classifyMessage on texts the scorer is and is not sure of.
ScorerResponses ==
  {NoJson("reject"),
   [kind |-> "json", isSpamType |-> "boolean", isSpam |-> TRUE,
    confidenceType |-> "number", confidence |-> Rat(7, 10),
    reasonType |-> "string", reason |-> "Unsolicited prize offer."]}

ScorerNext ==
  \/ Tick
  \/ \E valid \in BOOLEAN : ClsInitialize(valid, DefaultRateLimit)
  \/ ClsReset
  \/ \E c \in Classifiers, t \in ScorerTexts : ClassifyCall(c, t)
  \/ \E c \in Classifiers : Wake(c)
  \/ \E c \in Classifiers, resp \in ScorerResponses : AIReturn(c, resp)

ScorerSpec == Init /\ [][ScorerNext]_vars

\* startMonitoring without `if (this.isMonitoring) return`.
StartMonitoringUnguarded(onMessage, onStatsUpdate) ==
  /\ monitor' = [monitor EXCEPT !.isMonitoring = TRUE,
                                 !.subscription = TRUE,
                                 !.listeners = @ + 1,
                                 !.onMessageCallback = onMessage,
                                 !.onStatsUpdateCallback = onStatsUpdate,
                                 !.last = [name |-> "start", onMessage |-> onMessage,
                                           onStatsUpdate |-> onStatsUpdate]]
  /\ UNCHANGED <<store, flow, received, inserted, classified, written, rejected,
                 dispatched, monLast>>
  /\ UNCHANGED <<tgVars, clsVars, nlpVars, dbVars>>

\* startMonitoring(onMessage, onStatsUpdate): returns at once when already
\* monitoring, otherwise keeps the callbacks, adds handleIncomingSms to the
\* emitter's listeners and keeps the subscription.
StartMonitoring(onMessage, onStatsUpdate) ==
  /\ monitor' =
       IF monitor.isMonitoring
         THEN [monitor EXCEPT !.last = [name |-> "start", onMessage |-> onMessage,
                                        onStatsUpdate |-> onStatsUpdate]]
         ELSE [monitor EXCEPT !.isMonitoring = TRUE,
                              !.subscription = TRUE,
                              !.listeners = @ + 1,
                              !.onMessageCallback = onMessage,
                              !.onStatsUpdateCallback = onStatsUpdate,
                              !.last = [name |-> "start", onMessage |-> onMessage,
                                        onStatsUpdate |-> onStatsUpdate]]
  /\ UNCHANGED <<store, flow, received, inserted, classified, written, rejected,
                 dispatched, monLast>>
  /\ UNCHANGED <<tgVars, clsVars, nlpVars, dbVars>>

\* stopMonitoring(): removes the subscription, then every listener of the
\* emitter, and clears the callbacks; it assigns nothing a running
\* handleIncomingSms reads but the callbacks.
StopMonitoring ==
  /\ monitor' = [isMonitoring |-> FALSE, subscription |-> FALSE, listeners |-> 0,
                 onMessageCallback |-> FALSE, onStatsUpdateCallback |-> FALSE,
                 cut |-> IF \E h \in Handlers : flow[h].pc # "idle"
                         THEN LET h == CHOOSE h \in Handlers : flow[h].pc # "idle"
                              IN  flow[h].pc
                         ELSE monitor.cut,
                 last |-> [name |-> "stop", onMessage |-> FALSE,
                           onStatsUpdate |-> FALSE]]
  /\ UNCHANGED <<store, flow, received, inserted, classified, written, rejected,
                 dispatched, monLast>>
  /\ UNCHANGED <<tgVars, clsVars, nlpVars, dbVars>>

\* The subscription delivers an SMS event to handleIncomingSms.
SmsReceived(h) == monitor.listeners > 0 /\ HandlerCall(h)

\* SMS events handled while monitoring is started and stopped.
StopNext ==
  \/ \E onMessage, onStatsUpdate \in BOOLEAN : StartMonitoring(onMessage, onStatsUpdate)
  \/ StopMonitoring
  \/ \E h \in Handlers : SmsReceived(h)
  \/ \E h \in Handlers, ok \in DbOutcomes : InsertDone(h, ok)
  \/ \E h \in Handlers, isSpam \in BOOLEAN : ClassifyDone(h, isSpam)
  \/ \E h \in Handlers, ok \in DbOutcomes : UpdateDone(h, ok)
  \/ \E h \in Handlers : DispatchReturn(h)

\* Every call handleIncomingSms awaits eventually resolves or rejects.
StopProgress ==
  \E h \in Handlers :
    \/ \E ok \in DbOutcomes : InsertDone(h, ok)
    \/ \E isSpam \in BOOLEAN : ClassifyDone(h, isSpam)
    \/ \E ok \in DbOutcomes : UpdateDone(h, ok)
    \/ DispatchReturn(h)

StopSpec == Init /\ [][StopNext]_vars /\ WF_vars(StopProgress)

\* No flow is in flight.
AllResting == \A f \in Flows : flow[f].pc \in {"idle", "done"}

\* The three ingestion flows one call at a time, persistence calls failing
\* or not.
SeqIngestNext ==
  \/ \E h \in Handlers : AllResting /\ HandlerCall(h)
  \/ \E s \in Scans, l \in Limits : AllResting /\ ScanCall(s, l)
  \/ \E s \in Scans, ok \in DbOutcomes : ScanFetchDone(s, ok)
  \/ \E s \in Scans, ok \in DbOutcomes : LookupDone(s, ok)
  \/ \E f \in Handlers \cup Scans, ok \in DbOutcomes : InsertDone(f, ok)
  \/ \E f \in Flows, isSpam \in BOOLEAN : ClassifyDone(f, isSpam)
  \/ \E f \in Flows, ok \in DbOutcomes : UpdateDone(f, ok)
  \/ \E f \in Flows : DispatchReturn(f)
  \/ \E p \in Pendings, l \in Limits : AllResting /\ PendingCall(p, l)
  \/ \E p \in Pendings, ok \in DbOutcomes : PendingFetchDone(p, ok)

SeqIngestSpec == Init /\ [][SeqIngestNext]_vars

\* Two scans of the inbox overlapping in every way.
OverlapScanNext ==
  \/ \E s \in Scans, l \in Limits : ScanCall(s, l)
  \/ \E s \in Scans, ok \in DbOutcomes : ScanFetchDone(s, ok)
  \/ \E s \in Scans, ok \in DbOutcomes : LookupDone(s, ok)
  \/ \E s \in Scans, ok \in DbOutcomes : InsertDone(s, ok)
  \/ \E s \in Scans, isSpam \in BOOLEAN : ClassifyDone(s, isSpam)
  \/ \E s \in Scans, ok \in DbOutcomes : UpdateDone(s, ok)
  \/ \E s \in Scans : DispatchReturn(s)

OverlapScanSpec == Init /\ [][OverlapScanNext]_vars

\* SMS events handled while classifyPendingMessages runs.
PendingOverlapNext ==
  \/ \E h \in Handlers : HandlerCall(h)
  \/ \E h \in Handlers, ok \in DbOutcomes : InsertDone(h, ok)
  \/ \E f \in Handlers \cup Pendings, isSpam \in BOOLEAN : ClassifyDone(f, isSpam)
  \/ \E f \in Handlers \cup Pendings, ok \in DbOutcomes : UpdateDone(f, ok)
  \/ \E f \in Handlers \cup Pendings : DispatchReturn(f)
  \/ \E p \in Pendings, l \in Limits : PendingCall(p, l)
  \/ \E p \in Pendings, ok \in DbOutcomes : PendingFetchDone(p, ok)

PendingOverlapSpec == Init /\ [][PendingOverlapNext]_vars

\* SMS events handled while classifyPendingMessages runs, where the
\* updateClassification of handleIncomingSms resolves; every other call on the
\* database may reject.
LiveNext ==
  \/ \E h \in Handlers : HandlerCall(h)
  \/ \E h \in Handlers, ok \in DbOutcomes : InsertDone(h, ok)
  \/ \E f \in Handlers \cup Pendings, isSpam \in BOOLEAN : ClassifyDone(f, isSpam)
  \/ \E h \in Handlers : UpdateDone(h, TRUE)
  \/ \E p \in Pendings, ok \in DbOutcomes : UpdateDone(p, ok)
  \/ \E f \in Handlers \cup Pendings : DispatchReturn(f)
  \/ \E p \in Pendings, l \in Limits : PendingCall(p, l)
  \/ \E p \in Pendings, ok \in DbOutcomes : PendingFetchDone(p, ok)

\* Every call handleIncomingSms awaits (insertMessage, classifyMessage,
\* updateClassification, sendSpamNotification) eventually answers.
HandlerProgress ==
  \E h \in Handlers :
    \/ \E ok \in DbOutcomes : InsertDone(h, ok)
    \/ \E isSpam \in BOOLEAN : ClassifyDone(h, isSpam)
    \/ UpdateDone(h, TRUE)
    \/ DispatchReturn(h)

LiveSpec == Init /\ [][LiveNext]_vars /\ WF_vars(HandlerProgress)

\* ------------------------------------------------ dispatcher: the claims
Last(q) == q[Len(q)]
Front(q) == SubSeq(q, 1, Len(q) - 1)

\* C1: a notification whose every drain send fails is attempted by drains at
\* most 3 times and is absent from the queue after the third failed attempt:
\* no queued entry has 3 failed drain attempts behind it, and no drain sends an
\* entry that already failed 3 times.
C1_DroppedAfterThreeFailures ==
  /\ \A i \in 1..Len(queue) : queue[i].tries < MaxRetries
  /\ \A d \in Drains : drain[d].pc = "sending" => drain[d].item.tries < MaxRetries

\* C2: a failed drain send re-queues the entry with its attempt counter
\* incremented by one, and the counter never resets while the entry is
\* pending: the counter of every queued entry equals the number of failed
\* drain attempts of that notification.
C2_AttemptsCountFailures ==
  \A i \in 1..Len(queue) : queue[i].retries = queue[i].tries

\* C3: the counts a drain returns are the sends that succeeded in it and the
\* entries it dropped for exhausting their retries.
C3_DrainAccounting ==
  tgLast.op = "drainReturn" =>
    /\ tgLast.sent = tgLast.okSends
    /\ tgLast.failed = tgLast.dropped

\* C4: a processQueue call made while another processQueue call is in
\* progress returns {sent: 0, failed: 0}, starts no send and leaves the queue
\* as it found it.
C4_ReentrantCallIsNoop ==
  [][tgLast'.concurrent =>
       /\ tgLast'.sent = 0 /\ tgLast'.failed = 0
       /\ drain' = drain
       /\ queue' = queue]_vars

\* C5: at most one drain loop is active at a time, and isProcessing is true
\* exactly while that drain runs.
C5_SingleDrainFlag ==
  /\ Cardinality(ActiveDrains) <= 1
  /\ isProcessing <=> ActiveDrains # {}

\* What C6 says of one finished sendSpamNotification(m): q is the queue when
\* the post answered, q2 the queue when the call returned.
NotifyContract(m, q, q2, obs) ==
  /\ ~obs.threw
  /\ obs.outcome = "ok" => obs.ret /\ q2 = q
  /\ obs.outcome # "ok" =>
       /\ ~obs.ret
       /\ q2 # <<>>
       /\ Last(q2).message = m /\ Last(q2).retries = 0
       /\ Front(q2) = q \/ (q # <<>> /\ Front(q2) = Tail(q))

\* C6: sendSpamNotification never throws; a successful send returns true and
\* leaves the queue unchanged; a failed send (the request rejects or times
\* out, or the response's ok field is absent or falsy) returns false and
\* appends one entry for that message with retries = 0.
C6_NotifyNeverThrows ==
  [][/\ \A n \in Notifiers :
          (notify[n].pc = "posting" /\ notify'[n].pc = "idle")
            => NotifyContract(notify[n].msg, queue, queue', tgLast')
     /\ \A d \in Drains :
          (drain[d].pc = "sending" /\ drain'[d].pc = "delay")
            => NotifyContract(drain[d].item.message, queue, queue', tgLast')]_vars

\* C6 witness: a send answered without acknowledgment, the call returned
\* false and its message is the newest queue entry, with retries = 0.
C6_Witness ==
  /\ tgLast.op = "notifyDone" /\ tgLast.outcome = "nack" /\ ~tgLast.ret
  /\ queue # <<>> /\ Last(queue).retries = 0 /\ Last(queue).tries = 0

\* ------------------------------------------------ classification: the claims
\* C7: in a sequential run with the Adjudicator configured, two consecutive
\* outbound AI calls are at least the rate limit apart: the gap between a call
\* and the call before it (no reset() in between) is at least the rateLimitMs
\* the later call read in waitForRateLimit.
C7_SequentialGap ==
  aiCall.continuous => aiCall.gap >= aiCall.rate

\* C7 witness: a call that slept in waitForRateLimit and went out exactly one
\* rate limit after the call before it.
C7_Witness ==
  /\ aiCall.continuous /\ aiCall.waited
  /\ aiCall.gap = aiCall.rate /\ aiCall.rate = DefaultRateLimit
  /\ \E c \in Classifiers : cls[c].pc = "calling"

\* C8: with classifications in flight concurrently, no two outbound AI calls
\* are less than the rate limit apart, and no two calls proceed after reading
\* the same value of lastCallTime.
C8_SerializedCursor ==
  aiCall.continuous => (aiCall.gap >= aiCall.rate /\ ~aiCall.sameCursor)

C10_ReasonAndConfidence ==
  clsLast.op = "classify" =>
    /\ clsLast.result.reason # ""
    /\ RatLeq(Rat(0, 1), clsLast.result.confidence)
    /\ RatLeq(clsLast.result.confidence, Rat(1, 1))

\* C11: classifyMessage runs the scorer first and makes an outbound AI call
\* only for a text the scorer's confidence is below the trust threshold; for a
\* text at or above the threshold the returned verdict is the scorer's.
C11_ScorerGatesAdjudicator ==
  /\ \A c \in Classifiers :
       cls[c].pc = "calling" => ScorerResult(cls[c].text).confidence < TrustThreshold
  /\ (clsLast.op = "classify"
        /\ ScorerResult(clsLast.text).confidence >= TrustThreshold)
       => clsLast.result.isSpam = ScorerResult(clsLast.text).isSpam

\* ------------------------------------------- ingestion flows: the claims
\* C12: in each ingestion flow the steps of a message come in a fixed order:
\* classification starts on a stored message (right after the insert it is
\* Unclassified), a verdict reaches the store only from a flow whose
\* classification returned that verdict, and the dispatcher is invoked only
\* in the step in which the spam verdict has just been persisted.
C12_StepOrder ==
  [][\A m \in MsgIds :
       /\ \A f \in Flows :
            (flow'[f].pc = "classify" /\ flow'[f].items[flow'[f].i] = m
               /\ flow[f] # flow'[f])
            => /\ store'[m] # "absent"
               /\ flow[f].pc = "insert" => store'[m] = "unclassified"
       /\ (store'[m] # store[m] /\ store'[m] \in {"spam", "ham"})
            => \E f \in Flows : /\ flow[f].pc = "update" /\ Msg(f) = m
                                /\ flow[f].verdict = store'[m]
       /\ dispatched'[m] # dispatched[m]
            => /\ store'[m] = "spam" /\ written'[m] # written[m]
               /\ \E f \in Flows : /\ flow[f].pc = "update" /\ Msg(f) = m
                                   /\ flow'[f].pc = "notify"]_vars

\* C12 witness: a scan waits for the dispatcher; its message was inserted,
\* classified and its spam verdict written, once each.
C12_Witness ==
  \E s \in Scans :
    /\ flow[s].pc = "notify"
    /\ store[Msg(s)] = "spam"
    /\ inserted[Msg(s)] = 1 /\ classified[Msg(s)] = 1
    /\ written[Msg(s)] = 1 /\ dispatched[Msg(s)] = 1

\* C13: no flow step removes a stored message, and a stored verdict is only
\* ever replaced by a newly persisted verdict: once an id is stored it stays
\* stored, and a Spam or Ham verdict never goes back to Unclassified.
C13_StoreOnlyGrows ==
  [][\A m \in MsgIds :
       /\ store[m] # "absent" => store'[m] # "absent"
       /\ store[m] \in {"spam", "ham"} => store'[m] \in {"spam", "ham"}]_vars

\* The flow f gets the answer of its updateClassification call in this step.
UpdateAnswered(f) == flow[f].pc = "update" /\ flow'[f] # flow[f]

\* C14 as stated: a flow invokes the dispatcher for its message if and only
\* if the verdict classifyMessage just returned for it is spam.
C14_NotifyIffSpam ==
  [][/\ \A f \in Flows :
          UpdateAnswered(f) => (flow'[f].pc = "notify" <=> flow[f].verdict = "spam")
     /\ \A m \in MsgIds :
          dispatched'[m] # dispatched[m]
            => \E f \in Flows : UpdateAnswered(f) /\ Msg(f) = m]_vars

\* C14 amended: a flow invokes the dispatcher for its message if and only if
\* the verdict just computed is spam and its updateClassification resolved; a
\* ham verdict never leads to an invocation.
C14_NotifyIffSpamPersisted ==
  [][/\ \A f \in Flows :
          UpdateAnswered(f)
            => /\ flow'[f].pc = "notify"
                    <=> (flow[f].verdict = "spam"
                           /\ written'[Msg(f)] # written[Msg(f)])
               /\ flow'[f].pc = "notify"
                    <=> dispatched'[Msg(f)] # dispatched[Msg(f)]
     /\ \A m \in MsgIds :
          dispatched'[m] # dispatched[m]
            => \E f \in Flows : UpdateAnswered(f) /\ Msg(f) = m]_vars

\* C14 witness: one message stored Ham and never dispatched, another stored
\* Spam and dispatched once.
C14_Witness ==
  \E m1, m2 \in MsgIds :
    /\ store[m1] = "ham" /\ dispatched[m1] = 0
    /\ store[m2] = "spam" /\ dispatched[m2] = 1

C16_AtMostOnceStorage ==
  [][\A m \in InboxIds :
       /\ inserted'[m] <= 1
       /\ dispatched'[m] <= 1
       /\ (store[m] \in {"spam", "ham"} /\ inserted'[m] # inserted[m])
            => store'[m] = store[m]]_vars

\* Flows waiting for the answer of updateClassification for message m.
InUpdate(m) ==
  Cardinality({f \in Flows : flow[f].pc = "update" /\ flow[f].items[flow[f].i] = m})

C18_ScanContinuesAndCounts ==
  monLast.op = "scanReturn"
    => /\ monLast.seen = monLast.fetched
       /\ monLast.fetched = Min(monLast.limit, MaxInbox)
       /\ monLast.ret = monLast.completed
       /\ monLast.ret <= monLast.limit

\* C18 witness: a scan of two messages failed on the first one (the newer,
\* still not stored), completed the second, and returned 1.
C18_Witness ==
  /\ monLast.op = "scanReturn" /\ monLast.failed
  /\ monLast.fetched = 2 /\ monLast.ret = 1
  /\ \E m1, m2 \in InboxIds :
       m1 < m2 /\ store[m2] = "absent" /\ store[m1] \in {"spam", "ham"}

\* The ids of a fetched list.
Ids(items) == {items[k] : k \in 1..Len(items)}

\* C19: classifyPendingMessages works on exactly the stored messages whose
\* verdict is unclassified when getUnclassifiedMessages answers, newest first
\* and at most limit of them: a message that has a spam or ham verdict at that
\* time is not in the list, so the call neither classifies nor notifies it;
\* the list is fixed for the run, and the run goes through all of it whatever
\* fails on one message.
C19_PendingOnlyUnclassified ==
  [][\A p \in Pendings :
       /\ (flow[p].pc = "fetch" /\ flow'[p].pc = "classify")
            => LET items == flow'[p].items
                   open  == {m \in MsgIds : store[m] = "unclassified"}
               IN  /\ Ids(items) \subseteq open
                   /\ Cardinality(Ids(items)) = Len(items)
                   /\ Len(items) = Min(flow[p].limit, Cardinality(open))
       /\ (flow[p].pc \in {"classify", "update", "notify"} /\ flow'[p].pc # "done")
            => /\ flow'[p].items = flow[p].items
               /\ flow'[p].i \in {flow[p].i, flow[p].i + 1}
       /\ \A m \in MsgIds :
            (classified'[m] # classified[m] /\ flow[p].pc = "classify"
               /\ flow'[p] # flow[p])
              => m \in Ids(flow[p].items)
       /\ monLast'.op = "pendingReturn"
            => /\ monLast'.seen = monLast'.fetched
               /\ monLast'.fetched <= monLast'.limit]_vars

\* C19 witness: a pending run over two unclassified messages returned after
\* the update of the first (newer) one was rejected and the second one got its
\* verdict, while a third message, which had its verdict before, was
\* classified once only.
C19_Witness ==
  /\ monLast.op = "pendingReturn" /\ monLast.failed /\ monLast.fetched = 2
  /\ \E m1, m2, m3 \in MsgIds :
       /\ m1 < m2 /\ m3 \notin {m1, m2}
       /\ store[m2] = "unclassified" /\ classified[m2] = 2
       /\ store[m1] \in {"spam", "ham"} /\ classified[m1] = 2
       /\ store[m3] \in {"spam", "ham"} /\ classified[m3] = 1

\* C20: a message that handleIncomingSms stored (unclassified) eventually has
\* a spam or ham verdict in the store, when its updateClassification resolves
\* and the calls the handler awaits answer.
C20_EventuallyVerdict ==
  \A m \in EventIds :
    (store[m] = "unclassified") ~> (store[m] \in {"spam", "ham"})

\* C20 witness: a message of an SMS event has its verdict in the store, written
\* once, while classifyPendingMessages holds it in its fetched list.
C20_Witness ==
  \E m \in EventIds :
    /\ inserted[m] = 1 /\ written[m] = 1 /\ store[m] \in {"spam", "ham"}
    /\ flow["p1"].pc \in {"classify", "update"} /\ m \in Ids(flow["p1"].items)

\* C21: stopMonitoring does not cancel a message being handled: once
\* handleIncomingSms has begun on a message, the handler returns with the
\* message inserted, classified and its verdict written once, and the
\* dispatcher invoked once exactly when the verdict is spam, at whatever point
\* stopMonitoring (and startMonitoring) run in between; only a rejected
\* insertMessage or updateClassification ends the handling earlier.
C21_StopDoesNotCancel ==
  \A h \in Handlers, m \in EventIds :
    (flow[h].pc = "insert" /\ Msg(h) = m)
      ~> /\ flow[h].pc = "idle"
         /\ \/ inserted[m] = 0 /\ classified[m] = 0 /\ store[m] = "absent"
            \/ /\ inserted[m] = 1 /\ classified[m] = 1 /\ rejected[m] = 1
               /\ written[m] = 0 /\ dispatched[m] = 0
            \/ /\ inserted[m] = 1 /\ classified[m] = 1 /\ written[m] = 1
               /\ rejected[m] = 0 /\ store[m] \in {"spam", "ham"}
               /\ dispatched[m] = (IF store[m] = "spam" THEN 1 ELSE 0)

\* C21 witness: stopMonitoring ran while the handler was awaiting
\* classifyMessage, monitoring is still stopped, and the message has been
\* stored as spam and dispatched.
C21_Witness ==
  /\ monitor.cut = "classify" /\ ~monitor.isMonitoring
  /\ \E h \in Handlers, m \in EventIds :
       /\ flow[h].pc = "idle" /\ received = 1
       /\ written[m] = 1 /\ store[m] = "spam" /\ dispatched[m] = 1

\* The message is in the queue or among the entries a running drain took
\* from it.
Held(m) ==
  \/ \E i \in 1..Len(queue) : queue[i].message = m
  \/ \E d \in Drains :
       \/ drain[d].item.message = m
       \/ \E i \in 1..Len(drain[d].items) : drain[d].items[i].message = m

\* C22: a notification whose send failed is never silently lost: a failed
\* send leaves its message in the queue, and a message leaves the queue and
\* the hands of the drains only in a step that delivers it or counts it as
\* failed.  (The formula allows the eviction of the oldest entry of a full
\* queue, C23, and is violated all the same.)
C22_FailedSendNotLost ==
  [][\A m \in Msgs :
       /\ (/\ tgLast'.op \in {"notifyDone", "drainSendDone"} /\ ~tgLast'.ret
           /\ \/ \E n \in Notifiers : notify[n].msg = m /\ notify'[n] # notify[n]
              \/ \E d \in Drains : drain[d].item.message = m /\ drain'[d] # drain[d])
            => Held(m)'
       /\ (Held(m) /\ ~Held(m)')
            => \/ \E d \in Drains :
                    /\ drain[d].pc = "sending" /\ drain[d].item.message = m
                    /\ drain'[d] # drain[d]
                    /\ \/ tgLast'.op = "drainSendDone" /\ tgLast'.ret
                       \/ drain'[d].dropped > drain[d].dropped
               \/ /\ Len(queue) >= QueueCapacity /\ queue[1].message = m
                  /\ tgLast'.op \in {"notifyDone", "drainSendDone"}
                  /\ ~tgLast'.ret]_vars

\* The messages whose send is awaited by a sendSpamNotification call.
InFlight ==
  {notify[n].msg : n \in {x \in Notifiers : notify[x].pc = "posting"}}
    \cup {drain[d].item.message : d \in {x \in Drains : drain[x].pc = "sending"}}

\* C23: the retry queue never holds more than its capacity, and a failed send
\* that finds the queue full leaves it with the oldest entry gone, the others
\* in their order and the message of the failed send at the tail with
\* retries = 0; a queue that is not full just gets the new entry at its tail.
C23_BoundedQueue ==
  /\ [](Len(queue) <= QueueCapacity)
  /\ [][(tgLast'.op \in {"notifyDone", "drainSendDone"} /\ ~tgLast'.ret)
          => /\ queue' # <<>>
             /\ Front(queue') = (IF Len(queue) >= QueueCapacity
                                 THEN Tail(queue) ELSE queue)
             /\ Last(queue').retries = 0
             /\ Last(queue').message \in InFlight]_vars

\* C23 witness: the queue is full of the second and third notification after
\* the send of the third failed: the first one was evicted.
C23_Witness ==
  /\ tgLast.op = "notifyDone" /\ ~tgLast.ret
  /\ Len(queue) = QueueCapacity
  /\ queue[1].message = 2 /\ Last(queue).message = QueueCapacity + 1

\* C24: a drain posts the entries it took from the queue at its start, each
\* once and in their order: every post it starts is of the first entry it
\* still holds, an entry leaves its hands only into a post, no entry comes in
\* later, and an entry whose post failed goes to the tail of the queue, behind
\* the entries re-queued before it.
C24_DrainFifoOnce ==
  [][\A d \in Drains :
       LET before == IF drain[d].pc = "idle" THEN queue ELSE drain[d].items
           after == drain'[d].items
       IN  drain'[d] # drain[d]
             => /\ drain'[d].pc = "sending"
                     => /\ before # <<>>
                        /\ drain'[d].item = Head(before)
                        /\ after = Tail(before)
                /\ (drain[d].pc # "idle" /\ drain'[d].pc # "sending")
                     => after = before
                /\ (drain[d].pc = "sending" /\ ~tgLast'.ret)
                     => /\ queue' # <<>>
                        /\ Last(queue').message = drain[d].item.message
                        /\ \/ Front(queue') = queue
                           \/ queue # <<>> /\ Front(queue') = Tail(queue)]_vars

\* C25: while the channel is not configured or is disabled, a
\* sendSpamNotification call returns false at once, starts no post and leaves
\* the queue as it is (also when a drain makes the call for its next entry),
\* and a processQueue call returns zero counts, takes nothing from the queue
\* and starts no drain; nothing is thrown.
C25_SkippedWhenOff ==
  [][~(tgConfig.set /\ tgConfig.enabled)
       => /\ (\E n \in Notifiers, m \in Msgs : NotifyCall(n, m))
               => /\ queue' = queue /\ notify' = notify /\ drain' = drain
                  /\ tgLast'.op = "notifySkipped"
                  /\ ~tgLast'.ret /\ ~tgLast'.threw
          /\ (\E d \in Drains : ProcessQueueCall(d))
               => /\ queue' = queue /\ drain' = drain /\ notify' = notify
                  /\ isProcessing' = isProcessing
                  /\ tgLast'.op = "drainNoop"
                  /\ tgLast'.sent = 0 /\ tgLast'.failed = 0 /\ ~tgLast'.threw
          /\ (\E d \in Drains : DrainDelayDone(d))
               => /\ queue' = queue
                  /\ \A d \in Drains :
                       drain'[d].pc = "sending" => drain[d].pc = "sending"]_vars

\* C25 witness: processQueue was called on a configured but disabled channel
\* with entries in the queue and no drain running; the entries are still
\* there.
C25_Witness ==
  /\ tgLast.op = "drainNoop" /\ tgConfig.set /\ ~tgConfig.enabled
  /\ ~isProcessing /\ ActiveDrains = {} /\ Len(queue) = 2

\* ------------------------------------------------ the scorer: the claims
\* No condition of calculateSpamScore holds of the features.
NoIndicator(features) ==
  /\ features.spamKeywordCount = 0 /\ features.urgencyScore <= 50
  /\ features.capitalRatio <= 50 /\ features.exclamationCount <= 2
  /\ ~features.hasURL
  /\ features.legitPatternCount = 0 /\ ~features.hasOTP
  /\ ~features.hasBankingTerms

\* C26: on a feature set in which no spam indicator and no legitimate
\* indicator fires, the scorer returns isSpam = false, confidence 0 and the
\* default reason "No spam indicators found".
C26_NeutralWithoutIndicators ==
  (nlpLast.op = "classify" /\ NoIndicator(nlpLast.features))
    => /\ ~nlpLast.result.isSpam
       /\ nlpLast.result.confidence = 0
       /\ nlpLast.result.reason = [text |-> "No spam indicators found",
                                   reasons |-> <<>>]

\* C26 witness: a result for features that sit at every threshold without
\* passing it (urgency 0.5, capital ratio 0.5, two exclamation marks, an
\* amount without banking terms).
C26_Witness ==
  /\ nlpLast.op = "classify" /\ NoIndicator(nlpLast.features)
  /\ nlpLast.features.urgencyScore = 50 /\ nlpLast.features.capitalRatio = 50
  /\ nlpLast.features.exclamationCount = 2 /\ nlpLast.features.hasMoneyAmount
  /\ ~nlpLast.result.isSpam

\* The scores of the scale, in thousandths.
Scores == 0..1000

\* C27: the confidence returned is |score - 0.5| * 2 of the clamped score; it
\* lies in [0, 1], is 0 exactly at the decision boundary 0.5, and is never
\* lower for a score further from 0.5.
C27_ConfidenceIsDistance ==
  nlpLast.op = "classify"
    => LET score == nlpLast.result.score
           confidence == nlpLast.result.confidence
           away(t) == IF t >= 500 THEN t - 500 ELSE 500 - t
       IN  /\ score = CalculateSpamScore(nlpLast.features)
           /\ 10 * confidence = 2 * away(score)
           /\ confidence >= 0 /\ confidence <= 100
           /\ (confidence = 0) <=> (score = 500)
           /\ \A t \in Scores :
                away(t) >= away(score) => Confidence(t) >= confidence

\* C27 witness: a result above the boundary, score 0.65 with confidence 0.3.
C27_Witness ==
  /\ nlpLast.op = "classify"
  /\ nlpLast.result.score = 650 /\ nlpLast.result.confidence = 30

RECURSIVE MatchCount(_, _)
MatchCount(tokens, keywords) ==
  IF tokens = <<>> THEN 0
  ELSE (IF \E k \in 1..Len(keywords) :
             Includes(keywords[k], Head(tokens)) \/ Includes(Head(tokens), keywords[k])
        THEN 1 ELSE 0) + MatchCount(Tail(tokens), keywords)

\* C29: calculateKeywordSpamScore returns a value in [0, 1] that equals the
\* number of tokens matching a keyword divided by the number of tokens, and 0
\* for a text without tokens.
C29_KeywordScoreIsRatio ==
  kwLast.op = "score"
    => LET n == Len(kwLast.tokens)
           score == kwLast.score
       IN  /\ score.den > 0
           /\ score.num >= 0 /\ score.num <= score.den
           /\ n = 0 => score.num = 0
           /\ n > 0 => score.num * n = MatchCount(kwLast.tokens, kwLast.keywords) * score.den

\* C29 witness: a text with a word twice that matches, and one that does
\* not, scored 2/3 against the application's list.
C29_Witness ==
  /\ kwLast.op = "score"
  /\ kwLast.tokens = <<"prizes", "hello", "prizes">>
  /\ kwLast.keywords = SPAM_KEYWORDS
  /\ kwLast.score = Rat(2, 3)

C31_OneCallPerInvocation ==
  /\ [](clsLast.op = "classify"
          => clsLast.calls = (IF clsLast.configured THEN 1 ELSE 0))
  /\ [][(~aiModel /\ \E c \in Classifiers : cls'[c] # cls[c])
          => lastCallTime' = lastCallTime]_vars

\* -------------------------------------------- the keyword fallback: the claim
\* C32: classifyWithKeywords calls a text spam exactly when its keyword ratio
\* is strictly greater than 0.15, and its confidence is min(2 x ratio, 0.85),
\* so never above 0.85.
C32_FallbackThresholdAndCap ==
  kwLast.op = "fallback"
    => LET n == Len(kwLast.tokens)
           m == MatchCount(kwLast.tokens, SPAM_KEYWORDS)
           ratio == IF n = 0 THEN Rat(0, 1) ELSE Rat(m, n)
           twice == Rat(2 * ratio.num, ratio.den)
           c == kwLast.result.confidence
           same(a, b) == a.num * b.den = b.num * a.den
       IN  /\ kwLast.result.isSpam <=> (100 * ratio.num > 15 * ratio.den)
           /\ RatLeq(c, Rat(85, 100))
           /\ same(c, IF RatLess(twice, Rat(85, 100)) THEN twice ELSE Rat(85, 100))

\* C32 witness: one keyword among seven words, ratio 1/7 below 0.15: not
\* spam, confidence 2/7.
C32_Witness ==
  /\ kwLast.op = "fallback"
  /\ kwLast.tokens = <<"free", "hello", "hello", "hello", "hello", "hello", "hello">>
  /\ ~kwLast.result.isSpam
  /\ kwLast.result.confidence = Rat(2, 7)

\* C33: the features, verdict, confidence and reason of classifyMessage for a
\* text are the ones a new service returns for it, whatever lastIndex the
\* calls before left in the shared OTP and banking patterns: the same text
\* gets the same answer after every history.
C33_DeterministicAcrossCalls ==
  rxLast.op = "classify"
    => LET fresh == ExtractWithPatterns(rxLast.text, [pattern \in SharedPatterns |-> 0])
       IN  /\ rxLast.features = fresh.features
           /\ rxLast.features = ExtractFeatures(rxLast.text)
           /\ rxLast.result = NlpClassify(fresh.features)

\* A call on a two-word text with an OTP word and a banking word, made when
\* the call before left lastIndex at or past the last match in the OTP
\* pattern and in the banking pattern that match it; both were found.
C33_Witness ==
  /\ rxLast.op = "classify"
  /\ rxLast.text = <<"upi", "otp">>
  /\ rxLast.before["otp0"] = 2
  /\ rxLast.before["banking2"] = 1
  /\ rxLast.features.hasOTP
  /\ rxLast.features.hasBankingTerms

\* The reasons a result's reason names.
Named(result) == {result.reason.reasons[i] : i \in 1..Len(result.reason.reasons)}

\* C34: the reason of every classification is non-empty; that of a spam
\* verdict names every spam indicator that fired (spam keywords, urgency
\* above 0.5, capital ratio above 0.5, a link, more than two exclamation
\* marks), that of a ham verdict every legitimacy indicator that matched (OTP,
\* banking terms, legitimate patterns), and it is the generic default text
\* exactly when it names nothing.
C34_ReasonNamesIndicators ==
  nlpLast.op = "classify"
    => LET f == nlpLast.features
           r == nlpLast.result
       IN  /\ r.reason.text # ""
           /\ r.isSpam =>
                /\ f.spamKeywordCount > 0 => "spam keyword(s)" \in Named(r)
                /\ f.urgencyScore > 50 => "urgent language" \in Named(r)
                /\ f.capitalRatio > 50 => "excessive capitalization" \in Named(r)
                /\ f.hasURL => "contains suspicious link" \in Named(r)
                /\ f.exclamationCount > 2 => "multiple exclamation marks" \in Named(r)
                /\ r.reason.text = (IF Named(r) = {} THEN "Spam pattern detected"
                                                     ELSE "Spam detected: ")
           /\ ~r.isSpam =>
                /\ f.hasOTP => "OTP/verification code" \in Named(r)
                /\ f.hasBankingTerms => "banking transaction" \in Named(r)
                /\ f.legitPatternCount > 0 => "legitimate pattern(s)" \in Named(r)
                /\ r.reason.text = (IF Named(r) = {} THEN "No spam indicators found"
                                                     ELSE "Legitimate: ")
                /\ Named(r) = {} <=> (~f.hasOTP /\ ~f.hasBankingTerms
                                        /\ f.legitPatternCount = 0)

\* A spam verdict whose five spam indicators all fired.
C34_Witness ==
  /\ nlpLast.op = "classify"
  /\ nlpLast.result.isSpam
  /\ nlpLast.features.spamKeywordCount > 0
  /\ nlpLast.features.urgencyScore > 50
  /\ nlpLast.features.capitalRatio > 50
  /\ nlpLast.features.hasURL
  /\ nlpLast.features.exclamationCount > 2
  /\ Len(nlpLast.result.reason.reasons) = 5

\* C35: a feature set with banking terms, a money amount and no spam keyword
\* is classified as ham, whatever its urgency, capital ratio, exclamation
\* count and URL flag are.
C35_BankingDominatesMoney ==
  (/\ nlpLast.op = "classify"
   /\ nlpLast.features.hasBankingTerms
   /\ nlpLast.features.hasMoneyAmount
   /\ nlpLast.features.spamKeywordCount = 0)
    => ~nlpLast.result.isSpam

\* Such a feature set with every other spam indicator fired and no further
\* legitimate one: score 0.45.
C35_Witness ==
  /\ nlpLast.op = "classify"
  /\ nlpLast.features.hasBankingTerms
  /\ nlpLast.features.hasMoneyAmount
  /\ nlpLast.features.spamKeywordCount = 0
  /\ nlpLast.features.urgencyScore > 50
  /\ nlpLast.features.capitalRatio > 50
  /\ nlpLast.features.exclamationCount > 2
  /\ nlpLast.features.hasURL
  /\ ~nlpLast.features.hasOTP
  /\ nlpLast.features.legitPatternCount = 0
  /\ nlpLast.result.score = 450
  /\ ~nlpLast.result.isSpam

\* C36: a feature set with an OTP pattern matched and no spam indicator fired
\* (no spam keyword, urgency and capital ratio not above 0.5, at most two
\* exclamation marks, no link outside a banking text) is classified as ham
\* with confidence at least 0.7 and a reason naming the OTP/verification
\* code.
C36_OtpWithoutSpamIsHam ==
  (/\ nlpLast.op = "classify"
   /\ nlpLast.features.hasOTP
   /\ nlpLast.features.spamKeywordCount = 0
   /\ nlpLast.features.urgencyScore <= 50
   /\ nlpLast.features.capitalRatio <= 50
   /\ nlpLast.features.exclamationCount <= 2
   /\ ~(nlpLast.features.hasURL /\ ~nlpLast.features.hasBankingTerms))
    => /\ ~nlpLast.result.isSpam
       /\ nlpLast.result.confidence >= 70
       /\ nlpLast.result.reason.text = "Legitimate: "
       /\ \E i \in 1..Len(nlpLast.result.reason.reasons) :
            nlpLast.result.reason.reasons[i] = "OTP/verification code"

\* An OTP feature set with no other indicator of either kind: score 0.1,
\* confidence 0.8.
C36_Witness ==
  /\ nlpLast.op = "classify"
  /\ nlpLast.features.hasOTP
  /\ SpamIndicators(nlpLast.features) = 0
  /\ LegitIndicators(nlpLast.features) = 400
  /\ nlpLast.result.score = 100
  /\ nlpLast.result.confidence = 80
  /\ ~nlpLast.result.isSpam

\* The callbacks called in the step just taken include the one for the event.
Emitted(event) == \E i \in 1..Len(monLast.emitted) : monLast.emitted[i] = event

\* C37: handleIncomingSms emits "message stored" in the step in which the
\* insert resolved and from which classification starts, and emits "message
\* updated" once the verdict is persisted and before sendSpamNotification is
\* invoked for the message.
C37_EventOrder ==
  [][\A h \in Handlers :
       flow'[h] # flow[h] =>
         /\ Emitted("stored")' =>
              /\ flow[h].pc = "insert" /\ flow'[h].pc = "classify"
              /\ store'[Msg(h)] = "unclassified"
              /\ inserted'[Msg(h)] = inserted[Msg(h)] + 1
              /\ classified[Msg(h)] = 0
         /\ Emitted("updated")' =>
              /\ store'[Msg(h)] \in {"spam", "ham"}
              /\ written'[Msg(h)] = 1
              /\ dispatched[Msg(h)] = 0]_vars

\* C38: isActive() is true exactly when the subscription is held and it is
\* the emitter's one listener; a startMonitoring call while active changes
\* neither the listeners nor the callbacks; after stopMonitoring there is no
\* subscription, no listener and no callback.
C38_ActiveIffOneSubscription ==
  /\ [](/\ monitor.isMonitoring <=> (monitor.subscription /\ monitor.listeners = 1)
        /\ ~monitor.isMonitoring => (~monitor.subscription /\ monitor.listeners = 0)
        /\ monitor.last.name = "stop" =>
             /\ ~monitor.isMonitoring /\ ~monitor.subscription
             /\ monitor.listeners = 0
             /\ ~monitor.onMessageCallback /\ ~monitor.onStatsUpdateCallback)
  /\ [][(/\ monitor.isMonitoring
          /\ monitor'.last.name = "start"
          /\ monitor'.last # monitor.last)
           => /\ monitor'.isMonitoring
              /\ monitor'.subscription = monitor.subscription
              /\ monitor'.listeners = monitor.listeners
              /\ monitor'.onMessageCallback = monitor.onMessageCallback
              /\ monitor'.onStatsUpdateCallback = monitor.onStatsUpdateCallback]_vars

\* Monitoring is active with the callbacks of the first startMonitoring call,
\* and the last call was a startMonitoring with other callbacks.
C38_Witness ==
  /\ monitor.isMonitoring /\ monitor.subscription /\ monitor.listeners = 1
  /\ monitor.last.name = "start"
  /\ monitor.last.onMessage /\ ~monitor.onMessageCallback
  /\ ~monitor.last.onStatsUpdate /\ monitor.onStatsUpdateCallback

\* C39: the database is opened at most once per initialization (one run at
\* a time, none after one succeeded); a store operation runs its statement
\* only with the database set and table creation finished; a failed
\* initialization leaves the service uninitialized, and the next call then
\* starts a new initialization.
C39_InitializeOnceBeforeUse ==
  /\ [](/\ \A n, k \in 1..MaxInits :
             (initRun[n] \in {"opening", "creating"}
                /\ initRun[k] \in {"opening", "creating"}) => n = k
        /\ \A n \in 1..MaxInits :
             /\ initRun[n] \in {"opening", "creating"} => initializing = n
             /\ initRun[n] = "resolved" => (started = n /\ db /\ tables)
        /\ (started > 0 /\ initRun[started] = "rejected")
             => (~db /\ initializing = 0))
  /\ [][/\ \A o \in Ops :
            (dbCall[o].pc # "run" /\ dbCall'[o].pc = "run") => (db /\ tables)
        /\ \A c \in DbCallers :
            (/\ started > 0 /\ initRun[started] = "rejected"
             /\ dbCall[c].pc = "idle" /\ dbCall'[c] # dbCall[c])
              => /\ started' = started + 1
                 /\ initRun'[started'] = "opening"
                 /\ dbCall'[c] = [pc |-> "wait", on |-> started']]_vars

\* After a failed first initialization a store operation and initialize()
\* joined the second one; it succeeded, the operation runs its statement and
\* initialize() has not resumed yet.
C39_Witness ==
  /\ initRun[1] = "rejected" /\ initRun[2] = "resolved" /\ started = 2
  /\ \E o \in Ops : dbCall[o] = [pc |-> "run", on |-> 2]
  /\ \E i \in Initers : dbCall[i] = [pc |-> "wait", on |-> 2]

====
